---- MODULE Spec2Model ----
(***************************************************************************)
(* Agent-Shell: the agent turn loop (agent-core/agent_loop.rs), the        *)
(* provider chain with failover (agent-core/provider.rs), the tool         *)
(* registry (agent-core/tool_registry.rs) and the callers that drive a     *)
(* turn (agent-server/routes.rs, src/repl.rs).                             *)
(*                                                                         *)
(* Strings built with format! are modelled as sequences of their parts,    *)
(* so that "the message contains the provider name" is a property of the   *)
(* value and not of its spelling.                                          *)
(***************************************************************************)
EXTENDS Integers, Sequences, FiniteSets, TLC

VARIABLES
    providers,         \* ProviderChain.providers: Vec<ResolvedProvider>
    health,            \* ProviderChain.health: name -> ProviderHealth
    fo,                \* the frame of the request_with_failover call in progress
    nreq,              \* number of calls made on the chain so far
    caller,            \* who drives the turn: "stream" (SSE route) or "repl"
    session,           \* messages of the active session
    allowlist,         \* session tool allowlist handed to run (AllowNone = None)
    denylist,          \* session tool denylist handed to run
    pc,                \* position of the turn
    iteration,         \* AgentLoop::run local: iteration
    allowed_tools,     \* AgentLoop::run local: allowed_tools
    running_messages,  \* AgentLoop::run local: running_messages
    tool_calls,        \* AgentLoop::run local: our_tool_calls of this iteration
    tc,                \* index into tool_calls of the for loop
    events,            \* every event handed to event_tx.send, in order
    rxAlive,           \* the receiver of the event channel still exists
    sendFailed,        \* some event_tx.send returned Err (the receiver was gone)
    executed,          \* ids of the tool calls handed to Tool::execute, in order
    result,            \* what AgentLoop::run returned
    attempts,          \* closure invocations of this turn (environment budget)
    lock,              \* ProviderChain.health RwLock: the task holding it for writing
    task,              \* the chain call each concurrent task is in
    applied,           \* per provider, the record_* calls that have completed
    fs,                \* the file system: path -> node, for every existing path
    fcall,             \* the latest file tool call and what it did
    nfile,             \* number of file tool calls made
    wf,                \* WebFetchTool::execute: the call in progress and its client
    conns,             \* connections opened by the calls: (host, address)
    checked,           \* (host, address) pairs validation resolved and checked
    sch,               \* the Scheduler and the state file at its state_path
    clock,             \* Utc::now(); the scheduler counts it in units of six hours
    tick,              \* the latest Scheduler::tick: its now, the state around it, its tasks
    sm,                \* the SessionManager and what its latest call returned
    sdir,              \* sessions_dir: file name -> content
    fncall,            \* the latest call of a function of its arguments alone
    chat               \* the chat requests of the server: where each handler is

concVars == <<lock, task, applied>>
fileVars == <<fs, fcall, nfile>>
webVars == <<wf, conns, checked>>
schedVars == <<sch, clock, tick>>

chainVars == <<providers, health, fo, nreq>>
agentVars == <<caller, session, allowlist, denylist, pc, iteration, allowed_tools,
               running_messages, tool_calls, tc, events, rxAlive, sendFailed,
               executed, result, attempts>>

\* the state of the subsystems a specification leaves alone
extVars == <<concVars, fileVars, webVars, schedVars, sm, sdir, fncall, chat>>
vars == <<chainVars, agentVars, extVars>>

\* the subsystems outside the specification at hand (on) are not running
ExtOff(on) ==
    /\ IF on = "conc" THEN TRUE
       ELSE lock = 0 /\ task = <<>> /\ applied = <<>>
    /\ IF on = "files" THEN TRUE
       ELSE fs = <<>> /\ fcall = <<>> /\ nfile = 0
    /\ IF on = "web" THEN TRUE
       ELSE wf = <<>> /\ conns = {} /\ checked = {}
    /\ IF on = "sched" THEN TRUE
       ELSE sch = <<>> /\ tick = <<>> /\ (on \in {"sess", "chat"} \/ clock = 0)
    /\ IF on \in {"sess", "chat"} THEN TRUE
       ELSE sm = <<>> /\ sdir = <<>>
    /\ IF on = "fn" THEN TRUE
       ELSE fncall = <<>>
    /\ IF on = "chat" THEN TRUE
       ELSE chat = <<>>

----------------------------------------------------------------------------
(* Bounds of the model.                                                    *)

\* calls the clients of the chain make in all
MaxRequests == 3

\* closure results of a turn that the environment chooses freely; later
\* results are the plain ones (PlainResults)
FreeAttempts == 1

----------------------------------------------------------------------------
(* Provider chain: agent-core/src/provider.rs                              *)

NoRole == "<none>"

\* ProviderChain::from_config with an empty providers array and one legacy
\* failover endpoint: "default" and "failover-1", max_retries 2, no roles.
LegacyChain ==
    << [name |-> "default", priority |-> 1, max_retries |-> 2, roles |-> {}],
       [name |-> "failover-1", priority |-> 2, max_retries |-> 2, roles |-> {}] >>

\* Chains built from a providers array: listed out of priority order, with a
\* priority tie, a role restriction and different max_retries.
ChainConfigs ==
    { LegacyChain,
      << [name |-> "b", priority |-> 2, max_retries |-> 2, roles |-> {}],
         [name |-> "a", priority |-> 1, max_retries |-> 1, roles |-> {}],
         [name |-> "c", priority |-> 1, max_retries |-> 2, roles |-> {"code"}] >>,
      << [name |-> "solo", priority |-> 5, max_retries |-> 1, roles |-> {"chat"}] >> }

Roles == {NoRole, "code", "chat"}

Range(s) == { s[i] : i \in 1..Len(s) }

Names(ps) == { p.name : p \in Range(ps) }

\* ProviderHealth::default()
DefaultHealth ==
    [consecutive_failures |-> 0, total_requests |-> 0, total_failures |-> 0]

\* ProviderChain::new
NewHealth(ps) == [n \in Names(ps) |-> DefaultHealth]

\* the role filter of select and request_with_failover
RoleMatches(p, role) ==
    IF role = NoRole THEN TRUE ELSE p.roles = {} \/ role \in p.roles

\* (mutation) a provider stays selectable at max_retries failures
IsHealthy_Lenient(h, p) ==
    IF p.name \in DOMAIN h
      THEN h[p.name].consecutive_failures <= p.max_retries
      ELSE TRUE

\* the health filter: consecutive_failures < max_retries, true when unknown
IsHealthy(h, p) ==
    IF p.name \in DOMAIN h
      THEN h[p.name].consecutive_failures < p.max_retries
      ELSE TRUE

RECURSIVE Filter(_, _, _)
Filter(ps, h, role) ==
    IF ps = <<>> THEN <<>>
    ELSE LET rest == Filter(Tail(ps), h, role)
         IN  IF RoleMatches(Head(ps), role) /\ IsHealthy(h, Head(ps))
               THEN <<Head(ps)>> \o rest
               ELSE rest

\* insertion of p into a list sorted by priority, behind every element whose
\* priority is not greater: the order sort_by_key (a stable sort) produces
RECURSIVE InsertByPriority(_, _)
InsertByPriority(sorted, p) ==
    IF sorted = <<>> THEN <<p>>
    ELSE IF Head(sorted).priority <= p.priority
           THEN <<Head(sorted)>> \o InsertByPriority(Tail(sorted), p)
           ELSE <<p>> \o sorted

RECURSIVE SortByPriority(_)
SortByPriority(ps) ==
    IF ps = <<>> THEN <<>>
    ELSE InsertByPriority(SortByPriority(SubSeq(ps, 1, Len(ps) - 1)), ps[Len(ps)])

\* (mutation) the candidates are left in configuration order
Candidates_Unsorted(ps, h, role) == Filter(ps, h, role)

\* the candidates block of request_with_failover (and of select)
Candidates(ps, h, role) == SortByPriority(Filter(ps, h, role))

\* (mutation) a success leaves consecutive_failures as it was
RecordSuccess_NoReset(h, name) ==
    IF name \in DOMAIN h
      THEN [h EXCEPT ![name] = [@ EXCEPT !.total_requests = @ + 1]]
      ELSE h

\* ProviderChain::record_success
RecordSuccess(h, name) ==
    IF name \in DOMAIN h
      THEN [h EXCEPT ![name] =
              [@ EXCEPT !.consecutive_failures = 0,
                        !.total_requests = @ + 1]]
      ELSE h

\* ProviderChain::record_failure
RecordFailure(h, name) ==
    IF name \in DOMAIN h
      THEN [h EXCEPT ![name] =
              [@ EXCEPT !.consecutive_failures = @ + 1,
                        !.total_requests = @ + 1,
                        !.total_failures = @ + 1]]
      ELSE h

\* AgentError values: the variant and the parts of its message
NoError == [variant |-> "none", parts |-> <<>>]
ProviderError(parts) == [variant |-> "Provider", parts |-> parts]

ExhaustedError == ProviderError(<<"All providers exhausted">>)

\* format!("Provider {} permanent error: {}", provider.name, msg)
PermanentError(name, msg) ==
    ProviderError(<<"Provider ", name, " permanent error: ", msg>>)

\* errors.join("; ") of the entries format!("{}: {}", provider.name, msg)
RECURSIVE JoinErrors(_)
JoinErrors(errs) ==
    IF errs = <<>> THEN <<>>
    ELSE IF Len(errs) = 1 THEN <<errs[1][1], ": ", errs[1][2]>>
    ELSE <<errs[1][1], ": ", errs[1][2], "; ">> \o JoinErrors(Tail(errs))

\* format!("All providers failed: {}", errors.join("; "))
AllFailedError(errs) ==
    ProviderError(<<"All providers failed: ">> \o JoinErrors(errs))

NoValue == [choices |-> <<>>]

\* the frame of request_with_failover when no call is in progress
IdleFrame ==
    [status |-> "idle", role |-> NoRole, candidates |-> <<>>, idx |-> 0,
     errors |-> <<>>, invoked |-> <<>>, recorded |-> <<>>, entry |-> <<>>,
     value |-> NoValue, error |-> NoError]

\* results of the make_request closure
ClosureOk(v) == [kind |-> "Ok", value |-> v, msg |-> ""]
ClosureTransient(m) == [kind |-> "Transient", value |-> NoValue, msg |-> m]
ClosurePermanent(m) == [kind |-> "Permanent", value |-> NoValue, msg |-> m]

\* (mutation) a Permanent error moves on to the next candidate
MatchArm_RetryAll(kind) ==
    IF kind = "Ok" THEN "return_ok" ELSE "next_candidate"

\* what the match on the closure result does with the loop
MatchArm(kind) ==
    IF kind = "Ok" THEN "return_ok"
    ELSE IF kind = "Transient" THEN "next_candidate"
    ELSE "return_err"

\* (mutation) a provider that is Exhausted when a call starts is given a
\* fresh counter, as a recovery after some time would do
FailoverBegin_Recover(role) ==
    /\ fo.status # "running"
    /\ nreq' = nreq + 1
    /\ health' = [n \in DOMAIN health |->
                    IF \E i \in 1..Len(providers) :
                          /\ providers[i].name = n
                          /\ health[n].consecutive_failures >= providers[i].max_retries
                    THEN [health[n] EXCEPT !.consecutive_failures = 0]
                    ELSE health[n]]
    /\ LET cands == Candidates(providers, health', role)
       IN  fo' = [IdleFrame EXCEPT
                    !.status = IF cands = <<>> THEN "err" ELSE "running",
                    !.role = role,
                    !.candidates = cands,
                    !.idx = 1,
                    !.entry = health',
                    !.error = IF cands = <<>> THEN ExhaustedError ELSE NoError]
    /\ UNCHANGED providers

\* request_with_failover up to the for loop: compute the candidates under
\* the read lock, return "All providers exhausted" when there are none.
\* The frame of the previous call stays readable until this one starts.
FailoverBegin(role) ==
    /\ fo.status # "running"
    /\ nreq' = nreq + 1
    /\ LET cands == Candidates(providers, health, role)
       IN  fo' = [IdleFrame EXCEPT
                    !.status = IF cands = <<>> THEN "err" ELSE "running",
                    !.role = role,
                    !.candidates = cands,
                    !.idx = 1,
                    !.entry = health,
                    !.error = IF cands = <<>> THEN ExhaustedError ELSE NoError]
    /\ UNCHANGED <<providers, health>>

\* the body of the for loop for candidate p whose closure call answered res
\* (invoked and recorded keep the closure calls and the record_* calls of
\* this request)
FailoverMatch(p, res) ==
    LET arm == MatchArm(res.kind)
        call == [name |-> p.name, kind |-> res.kind, msg |-> res.msg]
    IN  IF arm = "return_ok"
          THEN /\ health' = RecordSuccess(health, p.name)
               /\ fo' = [fo EXCEPT !.status = "ok",
                                   !.value = res.value,
                                   !.invoked = Append(@, call),
                                   !.recorded = Append(@, <<p.name, "success">>)]
        ELSE IF arm = "next_candidate"
          THEN /\ health' = RecordFailure(health, p.name)
               /\ LET errs == Append(fo.errors, <<p.name, res.msg>>)
                      last == fo.idx = Len(fo.candidates)
                  IN  fo' = [fo EXCEPT
                               !.errors = errs,
                               !.idx = @ + 1,
                               !.invoked = Append(@, call),
                               !.recorded = Append(@, <<p.name, "failure">>),
                               !.status = IF last THEN "err" ELSE "running",
                               !.error = IF last THEN AllFailedError(errs)
                                                 ELSE NoError]
        ELSE /\ health' = RecordFailure(health, p.name)
             /\ fo' = [fo EXCEPT !.status = "err",
                                 !.error = PermanentError(p.name, res.msg),
                                 !.invoked = Append(@, call),
                                 !.recorded = Append(@, <<p.name, "failure">>)]

\* one pass of the for loop of request_with_failover: the closure is called
\* on the next candidate and answers res; after the last candidate failed
\* transiently the call returns "All providers failed"
FailoverAttempt(res) ==
    /\ fo.status = "running"
    /\ fo.idx <= Len(fo.candidates)
    /\ FailoverMatch(fo.candidates[fo.idx], res)
    /\ UNCHANGED <<providers, nreq>>

----------------------------------------------------------------------------
(* A client of the chain alone: calls request_with_failover one at a time. *)

ChainResults ==
    { ClosureOk(NoValue), ClosureTransient("upstream 503"),
      ClosurePermanent("invalid_api_key") }

NoMessage == [role |-> "none", content |-> <<>>, tool_calls |-> <<>>, tool_call_id |-> <<>>]
NoResult == [kind |-> "none", msg |-> NoMessage, err |-> NoError]
AllowNone == [some |-> FALSE, names |-> {}]

\* no turn is running
AgentOff ==
    /\ caller = "none" /\ session = <<>> /\ allowlist = AllowNone /\ denylist = {}
    /\ pc = "off" /\ iteration = 0 /\ allowed_tools = {}
    /\ running_messages = <<>> /\ tool_calls = <<>> /\ tc = 0
    /\ events = <<>> /\ rxAlive = TRUE /\ sendFailed = FALSE
    /\ executed = <<>> /\ result = NoResult /\ attempts = 0

ChainInit ==
    /\ providers \in ChainConfigs
    /\ health = NewHealth(providers)
    /\ fo = IdleFrame
    /\ nreq = 0
    /\ AgentOff
    /\ ExtOff("chain")

ChainCall ==
    /\ nreq < MaxRequests
    /\ \E role \in Roles : FailoverBegin(role)
    /\ UNCHANGED <<agentVars, extVars>>

ChainAttempt ==
    /\ \E res \in ChainResults : FailoverAttempt(res)
    /\ UNCHANGED <<agentVars, extVars>>

ChainNext == ChainCall \/ ChainAttempt

SpecChain == ChainInit /\ [][ChainNext]_vars

----------------------------------------------------------------------------
(* Concurrent users of one ProviderChain: tasks that call select,          *)
(* record_success, record_failure and request_with_failover on a shared    *)
(* chain.  The health map sits behind a RwLock.  A read section (select,   *)
(* the candidates block) has no suspension point and writes nothing: it is *)
(* one step that needs the lock free of a writer.  A write section is two  *)
(* steps, the read of the entry and the write of the updated entry, with   *)
(* the write lock held in between.                                         *)

\* chains the tasks share: those of ChainConfigs and one whose first
\* provider is configured with max_retries = 0
ConcConfigs ==
    ChainConfigs \cup
    { << [name |-> "z", priority |-> 1, max_retries |-> 0, roles |-> {}],
         [name |-> "y", priority |-> 2, max_retries |-> 1, roles |-> {}] >> }

Tasks == {1, 2}

\* Result<ResolvedProvider, AgentError>; for request_with_failover the
\* provider whose answer was returned
ChainResult(kind, ps, e) == [kind |-> kind, provider |-> ps, err |-> e]

\* a task between two calls; a call that returned leaves only its result
\* (at: for select, the number of the call among all calls on the chain)
IdleTask ==
    [op |-> "none", pc |-> "idle", at |-> 0, role |-> NoRole, name |-> "",
     rec |-> "", kind |-> "", local |-> DefaultHealth, candidates |-> <<>>,
     idx |-> 0, errors |-> <<>>,
     result |-> ChainResult("none", <<>>, NoError)]

\* (mutation) select returns the last candidate
SelectResult_Last(cands) ==
    IF cands = <<>> THEN ChainResult("Err", <<>>, ExhaustedError)
    ELSE ChainResult("Ok", <<cands[Len(cands)]>>, NoError)

\* candidates.first().map(clone).ok_or_else(|| "All providers exhausted")
SelectResult(cands) ==
    IF cands = <<>> THEN ChainResult("Err", <<>>, ExhaustedError)
    ELSE ChainResult("Ok", <<cands[1]>>, NoError)

\* (mutation) the health map is written without the lock
WriteLockFree_Unlocked == TRUE

\* self.health.write() succeeds at once: nobody holds the lock
WriteLockFree == lock = 0

ConcInit ==
    /\ providers \in ConcConfigs
    /\ health = NewHealth(providers)
    /\ fo = IdleFrame
    /\ nreq = 0
    /\ lock = 0
    /\ task = [t \in Tasks |-> IdleTask]
    /\ applied = [n \in Names(providers) |-> [success |-> 0, failure |-> 0, since |-> 0]]
    /\ AgentOff
    /\ ExtOff("conc")

\* the task is free to make its next call
CanCall(t) ==
    task[t].pc \in {"idle", "done"} /\ nreq < MaxRequests /\ nreq' = nreq + 1

\* ProviderChain::select, run by task t under the read lock
SelectCall(t, role) ==
    /\ CanCall(t)
    /\ lock = 0
    /\ task' = [task EXCEPT ![t] =
                  [IdleTask EXCEPT !.op = "select", !.pc = "done", !.at = nreq + 1,
                                   !.role = role,
                                   !.result = SelectResult(Candidates(providers, health, role))]]
    /\ UNCHANGED <<providers, health, lock, applied>>

\* task t calls record_success (rec = "success") or record_failure
\* (rec = "failure") for a provider of the chain
RecordCall(t, rec, name) ==
    /\ CanCall(t)
    /\ task' = [task EXCEPT ![t] =
                  [IdleTask EXCEPT !.op = "record", !.pc = "want_write",
                                   !.rec = rec, !.name = name]]
    /\ UNCHANGED <<providers, health, lock, applied>>

\* request_with_failover up to the for loop, run by task t: the candidates
\* are computed under the read lock
FailoverCall(t, role) ==
    /\ CanCall(t)
    /\ lock = 0
    /\ LET cands == Candidates(providers, health, role)
       IN  task' = [task EXCEPT ![t] =
                      [IdleTask EXCEPT
                         !.op = "failover", !.role = role,
                         !.candidates = cands, !.idx = 1,
                         !.pc = IF cands = <<>> THEN "done" ELSE "closure",
                         !.result = IF cands = <<>>
                                      THEN ChainResult("Err", <<>>, ExhaustedError)
                                      ELSE ChainResult("none", <<>>, NoError)]]
    /\ UNCHANGED <<providers, health, lock, applied>>

\* make_request(provider.clone()).await answers with kind: the match arm
\* calls record_success or record_failure
ClosureReturns(t, kind) ==
    /\ task[t].pc = "closure"
    /\ task' = [task EXCEPT ![t].kind = kind,
                            ![t].rec = IF kind = "Ok" THEN "success" ELSE "failure",
                            ![t].name = task[t].candidates[task[t].idx].name,
                            ![t].pc = "want_write"]
    /\ UNCHANGED <<providers, health, lock, applied, nreq>>

\* record_*: self.health.write() and health.get_mut(name): the task takes
\* the write lock and reads the entry
WriteLock(t) ==
    /\ task[t].pc = "want_write"
    /\ WriteLockFree
    /\ lock' = t
    /\ task' = [task EXCEPT ![t].local = health[task[t].name], ![t].pc = "writing"]
    /\ UNCHANGED <<providers, health, applied, nreq>>

\* record_*: the updated entry is written and the guard dropped; then the
\* rest of the match arm of request_with_failover, when that is the caller
WriteBack(t) ==
    LET f == task[t]
        read == [health EXCEPT ![f.name] = f.local]
        arm == MatchArm(f.kind)
        p == f.candidates[f.idx]
        errs == Append(f.errors, <<f.name, "upstream 503">>)
        last == f.idx = Len(f.candidates)
    IN  /\ f.pc = "writing"
        /\ health' = IF f.rec = "success" THEN RecordSuccess(read, f.name)
                                          ELSE RecordFailure(read, f.name)
        /\ applied' = [applied EXCEPT ![f.name] =
                         IF f.rec = "success"
                           THEN [@ EXCEPT !.success = @ + 1, !.since = 0]
                           ELSE [@ EXCEPT !.failure = @ + 1, !.since = @ + 1]]
        /\ lock' = IF lock = t THEN 0 ELSE lock
        /\ task' = [task EXCEPT ![t] =
              LET done == [IdleTask EXCEPT !.op = f.op, !.pc = "done"]
              IN  IF f.op = "record" THEN done
                  ELSE IF arm = "return_ok"
                    THEN [done EXCEPT !.result = ChainResult("Ok", <<p>>, NoError)]
                  ELSE IF arm = "next_candidate"
                    THEN IF last
                           THEN [done EXCEPT !.result =
                                   ChainResult("Err", <<>>, AllFailedError(errs))]
                           ELSE [f EXCEPT !.errors = errs, !.idx = @ + 1,
                                          !.pc = "closure"]
                  ELSE [done EXCEPT !.result =
                          ChainResult("Err", <<>>,
                                      PermanentError(f.name, "invalid_api_key"))]]
        /\ UNCHANGED <<providers, nreq>>

ConcNext ==
    \E t \in Tasks :
       \/ \E role \in Roles :
             /\ SelectCall(t, role)
             /\ UNCHANGED <<fo, agentVars, fileVars, webVars, schedVars, sm, sdir, fncall, chat>>
       \/ \E rec \in {"success", "failure"}, name \in Names(providers) :
             /\ RecordCall(t, rec, name)
             /\ UNCHANGED <<fo, agentVars, fileVars, webVars, schedVars, sm, sdir, fncall, chat>>
       \/ \E role \in Roles :
             /\ FailoverCall(t, role)
             /\ UNCHANGED <<fo, agentVars, fileVars, webVars, schedVars, sm, sdir, fncall, chat>>
       \/ \E kind \in {"Ok", "Transient", "Permanent"} :
             /\ ClosureReturns(t, kind)
             /\ UNCHANGED <<fo, agentVars, fileVars, webVars, schedVars, sm, sdir, fncall, chat>>
       \/ /\ WriteLock(t)
          /\ UNCHANGED <<fo, agentVars, fileVars, webVars, schedVars, sm, sdir, fncall, chat>>
       \/ /\ WriteBack(t)
          /\ UNCHANGED <<fo, agentVars, fileVars, webVars, schedVars, sm, sdir, fncall, chat>>

SpecConc == ConcInit /\ [][ConcNext]_vars

----------------------------------------------------------------------------
(* Tools and the registry: agent-core/src/tool_registry.rs                 *)

\* names of the tools registered at startup (register_all)
Registered == {"shell_exec", "file_read"}

\* Option<&[String]> of the allowlist (AllowNone is None)
AllowSome(ns) == [some |-> TRUE, names |-> ns]

\* ToolRegistry::schemas: the names of the schemas it returns
Schemas(allow, deny) ==
    { n \in Registered : n \notin deny /\ (allow.some => n \in allow.names) }

\* argument strings a model may send
ArgsOk == "{\"command\":\"ls\"}"
ArgsFail == "{\"command\":\"false\"}"
ArgsBad == "{\"command\":"

\* serde_json::from_str on the argument string
ParseJson(s) ==
    IF s \in {ArgsOk, ArgsFail}
      THEN [ok |-> TRUE, value |-> s, err |-> ""]
      ELSE [ok |-> FALSE, value |-> "", err |-> "EOF while parsing an object"]

\* Tool::execute of a registered tool: Ok(content) or Err(e)
ToolExecute(name, value) ==
    IF value = ArgsFail
      THEN [ok |-> FALSE, text |-> "Sandbox error: command timed out"]
      ELSE [ok |-> TRUE, text |-> "output"]

ToolOutput(id, content, is_error) ==
    [tool_call_id |-> id, content |-> content, is_error |-> is_error]

\* ToolRegistry::execute
RegistryExecute(tool_name, tool_call_id, args) ==
    IF tool_name \in Registered
      THEN LET r == ToolExecute(tool_name, args)
           IN  IF r.ok
                 THEN ToolOutput(tool_call_id, <<r.text>>, FALSE)
                 ELSE ToolOutput(tool_call_id, <<"Error: ", r.text>>, TRUE)
      ELSE ToolOutput(tool_call_id, <<"Tool not found: ", tool_name>>, TRUE)

----------------------------------------------------------------------------
(* Messages and events: agent-core/src/types.rs                            *)

NoId == <<>>

Message(role, content, calls, id) ==
    [role |-> role, content |-> content, tool_calls |-> calls, tool_call_id |-> id]

UserMessage(content) == Message("user", content, <<>>, NoId)
AssistantMessage(content) == Message("assistant", content, <<>>, NoId)
AssistantToolCalls(content, calls) == Message("assistant", content, calls, NoId)
\* (mutation) the tool message does not name its tool call
ToolMessage_NoId(id, content) == Message("tool", content, <<>>, NoId)

ToolMessage(id, content) == Message("tool", content, <<>>, id)
SystemMessage(content) == Message("system", content, <<>>, NoId)

Event(type, id, name, content, is_error) ==
    [type |-> type, id |-> id, name |-> name, content |-> content,
     is_error |-> is_error]

ContentChunk(content) == Event("ContentChunk", NoId, "", content, FALSE)
ToolCallStart(id, name) == Event("ToolCallStart", id, name, <<>>, FALSE)
ToolResult(out) == Event("ToolResult", out.tool_call_id, "", out.content, out.is_error)
Done(msg) == Event("Done", NoId, "", msg.content, FALSE)
ErrorEvent(err) == Event("Error", NoId, "", err.parts, TRUE)

----------------------------------------------------------------------------
(* The agent turn: agent-core/src/agent_loop.rs and its callers            *)

MAX_TOOL_ITERATIONS == 20

\* SessionConfig::default().max_history
max_history == 100

\* AppConfig::default().system_prompt
SystemPrompt == <<"You are a helpful AI assistant with access to tools.">>

FallbackText == <<"[Agent reached maximum tool iterations]">>

RecentMessages_Head(msgs, max) ==
    SubSeq(msgs, 1, IF Len(msgs) > max THEN max ELSE Len(msgs))

\* Session::recent_messages: the last max messages
RecentMessages(msgs, max) ==
    LET start == IF Len(msgs) > max THEN Len(msgs) - max ELSE 0
    IN  SubSeq(msgs, start + 1, Len(msgs))

\* AgentLoop::build_openai_messages: the system prompt goes first unless the
\* history already holds a system message
BuildOpenAIMessages(msgs) ==
    LET has_system == \E i \in 1..Len(msgs) : msgs[i].role = "system"
    IN  (IF has_system THEN <<>> ELSE <<SystemMessage(SystemPrompt)>>) \o msgs

\* the two callers of AgentLoop::run and the tool policy each hands over:
\* the routes pass None and an empty denylist, the REPL the lists of the
\* active session
Callers == {"stream", "repl"}
ReplAllowlist == AllowSome({"shell_exec", "file_read", "ghost"})
ReplDenylist == {"file_read"}

\* tool calls a model may return, as (name, arguments)
Call(name, args) == [name |-> name, arguments |-> args]
CallCycle ==
    << Call("shell_exec", ArgsOk), Call("ghost", ArgsBad), Call("shell_exec", ArgsFail),
       Call("file_read", ArgsOk), Call("shell_exec", ArgsBad) >>

\* most tool calls one response of the model carries
MaxToolCalls == 2

\* the lists of tool calls of a response: up to MaxToolCalls successive
\* calls of CallCycle, starting anywhere in it
CallLists ==
    { [k \in 1..n |-> CallCycle[((i + k - 2) % Len(CallCycle)) + 1]] :
        i \in 1..Len(CallCycle), n \in 1..MaxToolCalls }

Contents == {<<>>, <<"text">>}

\* a CreateChatCompletionResponse: its choices, the first one is used
Response(content, calls) ==
    [choices |-> << [content |-> content, tool_calls |-> calls] >>]

RichResponses ==
    {NoValue} \cup { Response(c, l) : c \in Contents, l \in CallLists \cup {<<>>} }

PlainResponses ==
    { Response(<<"text">>, <<>>), Response(<<>>, <<Call("shell_exec", ArgsOk)>>) }

\* what send_completion_request may answer at the n-th closure call of a turn
ClosureResults(n) ==
    IF n <= FreeAttempts
      THEN { ClosureOk(r) : r \in RichResponses }
             \cup { ClosureTransient("Request timed out after 30s"),
                    ClosurePermanent("invalid_api_key") }
      ELSE { ClosureOk(r) : r \in PlainResponses }

\* the provider numbers the tool calls of its k-th response (k, 1), (k, 2), ...
WithIds(calls, k) ==
    [j \in 1..Len(calls) |->
        [id |-> <<k, j>>, name |-> calls[j].name, arguments |-> calls[j].arguments]]

\* let _ = event_tx.send(..) for each event of evs: the event is handed to
\* the channel and the Result of send is dropped
Emit(evs) ==
    /\ events' = events \o evs
    /\ sendFailed' = (sendFailed \/ (evs # <<>> /\ ~rxAlive))

\* if !content.is_empty() { send(ContentChunk(content)) }
ChunkOf(content) == IF content = <<>> THEN <<>> ELSE <<ContentChunk(content)>>

\* (mutation) the arguments are parsed before the policy is consulted
ToolOutputFor_ParseFirst(call, allowed) ==
    LET parsed == ParseJson(call.arguments)
    IN  IF ~parsed.ok
          THEN ToolOutput(call.id, <<"Invalid JSON arguments: ", parsed.err>>, TRUE)
          ELSE IF call.name \notin allowed
                 THEN ToolOutput(call.id, <<"Tool not allowed: ", call.name>>, TRUE)
                 ELSE RegistryExecute(call.name, call.id, parsed.value)

\* the policy block of the for loop: the output of one tool call
ToolOutputFor(call, allowed) ==
    IF call.name \notin allowed
      THEN ToolOutput(call.id, <<"Tool not allowed: ", call.name>>, TRUE)
      ELSE LET parsed == ParseJson(call.arguments)
           IN  IF ~parsed.ok
                 THEN ToolOutput(call.id, <<"Invalid JSON arguments: ", parsed.err>>, TRUE)
                 ELSE RegistryExecute(call.name, call.id, parsed.value)

\* the tool call takes the Err arm of the match on serde_json::from_str
InvalidJsonArm(call, allowed) ==
    call.name \in allowed /\ ~ParseJson(call.arguments).ok

\* (mutation) the Err arm forgets to send the ToolResult
ErrArmEvents_Silent(output) == <<>>

\* the events sent by the Err arm before its continue
ErrArmEvents(output) == <<ToolResult(output)>>

\* (mutation) a failed tool call ends the turn
AfterToolCall_Fatal(is_error, last) ==
    IF is_error THEN "returned" ELSE IF last THEN "loop" ELSE "tools"

\* where the for loop goes after a tool call: on to the next call, or back
\* to the top of the outer loop after the last one, whatever the output was
AfterToolCall(is_error, last) == IF last THEN "loop" ELSE "tools"

\* (mutation) the cap is checked one iteration late
CapReached_Late(it) == it > MAX_TOOL_ITERATIONS + 1

\* if iteration > MAX_TOOL_ITERATIONS { break }
CapReached(it) == it > MAX_TOOL_ITERATIONS

\* (mutation) Done is sent before the content
FinalEvents_DoneFirst(content, final_message) ==
    <<Done(final_message)>> \o ChunkOf(content)

\* the events of the final text response
FinalEvents(content, final_message) ==
    ChunkOf(content) \o <<Done(final_message)>>

\* the tool call reaches self.tool_registry.execute
ReachesExecute(call, allowed) ==
    call.name \in allowed /\ ParseJson(call.arguments).ok

Ok(msg) == [kind |-> "Ok", msg |-> msg, err |-> NoError]
Err(e) == [kind |-> "Err", msg |-> NoMessage, err |-> e]

\* (mutation) a response without choices counts as an empty final answer
NoChoicesResult_Empty == Ok(AssistantMessage(<<>>))

\* .ok_or_else(|| AgentError::Provider("No choices in response".into()))?
NoChoicesResult == Err(ProviderError(<<"No choices in response">>))

Init ==
    /\ providers = LegacyChain
    /\ health = NewHealth(providers)
    /\ fo = IdleFrame
    /\ nreq = 0
    /\ caller \in Callers
    /\ session = <<>>
    /\ allowlist = IF caller = "repl" THEN ReplAllowlist ELSE AllowNone
    /\ denylist = IF caller = "repl" THEN ReplDenylist ELSE {}
    /\ pc = "idle"
    /\ iteration = 0
    /\ allowed_tools = {}
    /\ running_messages = <<>>
    /\ tool_calls = <<>>
    /\ tc = 0
    /\ events = <<>>
    /\ rxAlive = TRUE
    /\ sendFailed = FALSE
    /\ executed = <<>>
    /\ result = NoResult
    /\ attempts = 0
    /\ ExtOff("agent")

\* the caller appends the user message, takes the history window and calls
\* run, which computes the schemas, the allowed set and the message list
StartTurn ==
    /\ pc = "idle"
    /\ LET pushed == Append(session, UserMessage(<<"what is 2+2?">>))
       IN  /\ session' = pushed
           /\ running_messages' =
                BuildOpenAIMessages(RecentMessages(pushed, max_history))
    /\ allowed_tools' = Schemas(allowlist, denylist)
    /\ iteration' = 0
    /\ pc' = "loop"
    /\ UNCHANGED <<chainVars, extVars, caller, allowlist, denylist, tool_calls, tc, events,
                   rxAlive, sendFailed, executed, result, attempts>>

\* top of the loop, iteration <= MAX_TOOL_ITERATIONS: call the chain
LoopCall ==
    /\ pc = "loop"
    /\ ~CapReached(iteration + 1)
    /\ iteration' = iteration + 1
    /\ FailoverBegin(NoRole)
    /\ pc' = "await"
    /\ UNCHANGED <<extVars, caller, session, allowlist, denylist, allowed_tools,
                   running_messages, tool_calls, tc, events, rxAlive, sendFailed,
                   executed, result, attempts>>

\* top of the loop, iteration > MAX_TOOL_ITERATIONS: break, send Done with
\* the fallback message and return it
LoopCap ==
    /\ pc = "loop"
    /\ CapReached(iteration + 1)
    /\ iteration' = iteration + 1
    /\ Emit(<<Done(AssistantMessage(FallbackText))>>)
    /\ result' = Ok(AssistantMessage(FallbackText))
    /\ pc' = "returned"
    /\ UNCHANGED <<chainVars, extVars, caller, session, allowlist, denylist, allowed_tools,
                   running_messages, tool_calls, tc, rxAlive, executed, attempts>>

\* the chain calls the closure on its next candidate
ProviderAttempt ==
    /\ pc = "await"
    /\ \E res \in ClosureResults(attempts + 1) : FailoverAttempt(res)
    /\ attempts' = attempts + 1
    /\ UNCHANGED <<extVars, caller, session, allowlist, denylist, pc, iteration,
                   allowed_tools, running_messages, tool_calls, tc, events, rxAlive,
                   sendFailed, executed, result>>

\* request_with_failover(..).await? with an Err: run returns it
ProviderFailed ==
    /\ pc = "await"
    /\ fo.status = "err"
    /\ result' = Err(fo.error)
    /\ pc' = "returned"
    /\ UNCHANGED <<chainVars, extVars, caller, session, allowlist, denylist,
                   iteration, allowed_tools, running_messages, tool_calls, tc,
                   events, rxAlive, sendFailed, executed, attempts>>

\* response.choices.first() is None
NoChoices ==
    /\ pc = "await"
    /\ fo.status = "ok"
    /\ fo.value.choices = <<>>
    /\ result' = NoChoicesResult
    /\ pc' = "returned"
    /\ UNCHANGED <<chainVars, extVars, caller, session, allowlist, denylist,
                   iteration, allowed_tools, running_messages, tool_calls, tc,
                   events, rxAlive, sendFailed, executed, attempts>>

\* the response has tool calls: send the content, push the assistant
\* message with its tool calls, enter the for loop
ToolCallsResponse ==
    /\ pc = "await"
    /\ fo.status = "ok"
    /\ fo.value.choices # <<>>
    /\ LET msg == fo.value.choices[1]
           calls == WithIds(msg.tool_calls, iteration)
       IN  /\ msg.tool_calls # <<>>
           /\ Emit(ChunkOf(msg.content))
           /\ running_messages' =
                Append(running_messages, AssistantToolCalls(msg.content, calls))
           /\ tool_calls' = calls
    /\ tc' = 1
    /\ pc' = "tools"
    /\ UNCHANGED <<chainVars, extVars, caller, session, allowlist, denylist,
                   iteration, allowed_tools, rxAlive, executed, result, attempts>>

\* the response has no tool calls: send the content, send Done, return
FinalResponse ==
    /\ pc = "await"
    /\ fo.status = "ok"
    /\ fo.value.choices # <<>>
    /\ LET msg == fo.value.choices[1]
           final_message == AssistantMessage(msg.content)
       IN  /\ msg.tool_calls = <<>>
           /\ Emit(FinalEvents(msg.content, final_message))
           /\ result' = Ok(final_message)
    /\ pc' = "returned"
    /\ UNCHANGED <<chainVars, extVars, caller, session, allowlist, denylist,
                   iteration, allowed_tools, running_messages, tool_calls, tc,
                   rxAlive, executed, attempts>>

\* for tc in &our_tool_calls: send ToolCallStart
ToolStart ==
    /\ pc = "tools"
    /\ tc <= Len(tool_calls)
    /\ Emit(<<ToolCallStart(tool_calls[tc].id, tool_calls[tc].name)>>)
    /\ pc' = "tool"
    /\ UNCHANGED <<chainVars, extVars, caller, session, allowlist, denylist, iteration,
                   allowed_tools, running_messages, tool_calls, tc, rxAlive,
                   executed, result, attempts>>

\* the rest of the loop body: policy, parse, execute, send ToolResult, push
\* the tool message; after the last tool call continue the outer loop
ToolFinish ==
    /\ pc = "tool"
    /\ LET call == tool_calls[tc]
           output == ToolOutputFor(call, allowed_tools)
       IN  /\ executed' = IF ReachesExecute(call, allowed_tools)
                            THEN Append(executed, call.id)
                            ELSE executed
           /\ Emit(IF InvalidJsonArm(call, allowed_tools)
                      THEN ErrArmEvents(output)
                      ELSE <<ToolResult(output)>>)
           /\ running_messages' =
                Append(running_messages, ToolMessage(call.id, output.content))
           /\ pc' = AfterToolCall(output.is_error, tc = Len(tool_calls))
    /\ tc' = tc + 1
    /\ UNCHANGED <<chainVars, extVars, caller, session, allowlist, denylist, iteration,
                   allowed_tools, tool_calls, rxAlive, result, attempts>>

\* the SSE client goes away: the receiver of the event channel is dropped
DropReceiver ==
    /\ caller = "stream"
    /\ pc \notin {"idle", "finished"}
    /\ rxAlive
    /\ rxAlive' = FALSE
    /\ UNCHANGED <<chainVars, extVars, caller, session, allowlist, denylist, pc, iteration,
                   allowed_tools, running_messages, tool_calls, tc, events,
                   sendFailed, executed, result, attempts>>

\* run returned Ok(msg): the caller appends msg to the session
SaveAssistant ==
    /\ pc = "returned"
    /\ result.kind = "Ok"
    /\ session' = Append(session, result.msg)
    /\ pc' = "finished"
    /\ UNCHANGED <<chainVars, extVars, caller, allowlist, denylist, iteration, allowed_tools,
                   running_messages, tool_calls, tc, events, rxAlive, sendFailed,
                   executed, result, attempts>>

\* run returned Err(e): the SSE route sends Error(e), the REPL prints it
ReportError ==
    /\ pc = "returned"
    /\ result.kind = "Err"
    /\ Emit(IF caller = "stream" THEN <<ErrorEvent(result.err)>> ELSE <<>>)
    /\ pc' = "finished"
    /\ UNCHANGED <<chainVars, extVars, caller, session, allowlist, denylist, iteration,
                   allowed_tools, running_messages, tool_calls, tc, rxAlive,
                   executed, result, attempts>>

Next ==
    \/ StartTurn
    \/ LoopCall
    \/ LoopCap
    \/ ProviderAttempt
    \/ ProviderFailed
    \/ NoChoices
    \/ ToolCallsResponse
    \/ FinalResponse
    \/ ToolStart
    \/ ToolFinish
    \/ DropReceiver
    \/ SaveAssistant
    \/ ReportError

Spec == Init /\ [][Next]_vars

----------------------------------------------------------------------------
(* File tools: agent-tools/src/file_ops.rs.  A path is the sequence of its *)
(* components, <<>> is "/".  The file system does not change while a tool  *)
(* call runs.                                                              *)

\* file tool calls made in all
MaxFileCalls == 2

\* symbolic links the kernel follows while resolving one path
SymlinkFuel == 2

\* SandboxConfig.workspace_root = Some("/ws")
WorkspaceRoot == <<"ws">>

\* the workspace the tools are started on: a file, a directory, a link to
\* a directory of the workspace, a link to a directory outside it, and a
\* link whose target, outside the workspace, does not exist
Layout ==
    LET d == [kind |-> "dir", target |-> <<>>]
        f == [kind |-> "file", target |-> <<>>]
        l(t) == [kind |-> "link", target |-> t]
    IN  (<<"ws">> :> d) @@ (<<"ws", "a.txt">> :> f) @@ (<<"ws", "sub">> :> d)
        @@ (<<"ws", "in">> :> l(<<"ws", "sub">>))
        @@ (<<"ws", "out">> :> l(<<"etc">>))
        @@ (<<"ws", "dangle">> :> l(<<"etc", "new.txt">>))
        @@ (<<"etc">> :> d) @@ (<<"etc", "passwd">> :> f) @@ (<<"ws2">> :> d)

\* the path arguments of the calls: [abs: is_absolute, comps]
RawPaths ==
    { [abs |-> TRUE, comps |-> c] :
        c \in { <<"ws">>, <<"ws", "a.txt">>, <<"ws", "new.txt">>,
                <<"ws", "sub", "deep", "new.txt">>, <<"etc">>, <<"etc", "passwd">>,
                <<"ws", "..", "etc", "passwd">>,
                <<"ws", "nodir", "..", "..", "etc", "passwd">>,
                <<"ws", "in", "x.txt">>, <<"ws", "out", "passwd">>,
                <<"ws", "out", "new.txt">>, <<"ws", "dangle">>,
                <<"ws", "dangle", "x.txt">>, <<"ws2", "f">> } }
    \cup { [abs |-> FALSE, comps |-> c] : c \in { <<"a.txt">>, <<"..", "etc", "passwd">> } }

\* Path::parent
Front(p) == SubSeq(p, 1, Len(p) - 1)

IsDir(f, p) == p = <<>> \/ (p \in DOMAIN f /\ f[p].kind = "dir")

\* Path::starts_with: component-wise prefix
StartsWith(p, base) == Len(base) <= Len(p) /\ SubSeq(p, 1, Len(base)) = base

\* the kernel resolving rest from directory cur, following every link
\* (canonicalize, metadata, open): ok and the real location, or not ok
RECURSIVE Walk(_, _, _, _)
Walk(f, cur, rest, fuel) ==
    IF rest = <<>> THEN [ok |-> TRUE, path |-> cur]
    ELSE IF ~IsDir(f, cur) THEN [ok |-> FALSE, path |-> <<>>]
    ELSE IF Head(rest) = ".." THEN Walk(f, Front(cur), Tail(rest), fuel)
    ELSE LET child == Append(cur, Head(rest))
         IN  IF child \notin DOMAIN f THEN [ok |-> FALSE, path |-> <<>>]
             ELSE IF f[child].kind = "link"
               THEN IF fuel = 0 THEN [ok |-> FALSE, path |-> <<>>]
                    ELSE Walk(f, <<>>, f[child].target \o Tail(rest), fuel - 1)
             ELSE Walk(f, child, Tail(rest), fuel)

\* validate_path with workspace_root = Some(WorkspaceRoot) and the current
\* directory at the workspace root.  WalkUp is lines 30-59: canonicalize
\* abs when it exists, else walk up to an existing ancestor (stopping
\* where file_name() is None), canonicalize that and push the tail back.
ValidatePath(f, raw) ==
    LET RECURSIVE WalkUp(_, _)
        WalkUp(existing, tail) ==
            LET c == Walk(f, <<>>, existing, SymlinkFuel)
            IN  IF c.ok \/ existing = <<>> \/ existing[Len(existing)] = ".."
                  THEN [ok |-> c.ok, path |-> c.path \o tail]
                  ELSE WalkUp(Front(existing), <<existing[Len(existing)]>> \o tail)
        abs == IF raw.abs THEN raw.comps ELSE WorkspaceRoot \o raw.comps
        canonical == WalkUp(abs, <<>>)
        canon_root == Walk(f, <<>>, WorkspaceRoot, SymlinkFuel)
    IN  IF ~canonical.ok
          THEN [ok |-> FALSE, path |-> <<>>,
                message |-> <<"Failed to canonicalize path: ", "{e}">>]
        ELSE IF ~canon_root.ok
          THEN [ok |-> FALSE, path |-> <<>>,
                message |-> <<"Failed to canonicalize workspace_root: ", "{e}">>]
        ELSE IF ~StartsWith(canonical.path, canon_root.path)
          THEN [ok |-> FALSE, path |-> <<>>,
                message |-> <<"Path '", "{canonical}", "' is outside the workspace root '",
                              "{canon_root}", "'">>]
        ELSE [ok |-> TRUE, path |-> canonical.path, message |-> <<>>]

\* what a call did: Result<String, AgentError> as ok and message, and the
\* real locations it read, listed, created or wrote
Did(tool, raw, ok, message, touched) ==
    [tool |-> tool, raw |-> raw, ok |-> ok, message |-> message, touched |-> touched]

\* FileReadTool::execute
FileRead(raw) ==
    LET v == ValidatePath(fs, raw)
        r == Walk(fs, <<>>, v.path, SymlinkFuel)
    IN  /\ fcall' = IF ~v.ok THEN Did("file_read", raw, FALSE, v.message, {})
                    ELSE IF r.ok /\ r.path \in DOMAIN fs /\ fs[r.path].kind = "file"
                      THEN Did("file_read", raw, TRUE, <<"{content}">>, {r.path})
                    ELSE Did("file_read", raw, FALSE, <<"Failed to read ", "{path}">>,
                             IF r.ok THEN {r.path} ELSE {})
        /\ fs' = fs

\* FileWriteTool::execute (overwrite and append open the same file).
\* CreateDirAll is tokio::fs::create_dir_all: the file system afterwards,
\* or not ok.  OpenCreate is the open with create of fs::write and of
\* OpenOptions: the real location of the file opened or created; the last
\* component is followed when it is a link, whether its target exists or
\* not.
FileWrite(raw) ==
    LET RECURSIVE CreateDirAll(_, _)
        CreateDirAll(f, dir) ==
            IF dir = <<>> THEN [ok |-> TRUE, fs |-> f]
            ELSE IF dir \in DOMAIN f
              THEN LET r == Walk(f, <<>>, dir, SymlinkFuel)
                   IN  [ok |-> r.ok /\ IsDir(f, r.path), fs |-> f]
            ELSE LET up == CreateDirAll(f, Front(dir))
                 IN  IF up.ok
                       THEN [ok |-> TRUE,
                             fs |-> up.fs @@ (dir :> [kind |-> "dir", target |-> <<>>])]
                       ELSE up
        RECURSIVE OpenCreate(_, _, _)
        OpenCreate(f, p, fuel) ==
            LET par == Walk(f, <<>>, Front(p), SymlinkFuel)
                child == Append(par.path, p[Len(p)])
            IN  IF p = <<>> \/ ~par.ok \/ ~IsDir(f, par.path) \/ p[Len(p)] = ".."
                  THEN [ok |-> FALSE, path |-> <<>>]
                ELSE IF child \notin DOMAIN f THEN [ok |-> TRUE, path |-> child]
                ELSE IF f[child].kind = "link"
                  THEN IF fuel = 0 THEN [ok |-> FALSE, path |-> <<>>]
                       ELSE OpenCreate(f, f[child].target, fuel - 1)
                ELSE [ok |-> f[child].kind = "file", path |-> child]
        v == ValidatePath(fs, raw)
        dirs == CreateDirAll(fs, Front(v.path))
        made == DOMAIN dirs.fs \ DOMAIN fs
        file == OpenCreate(dirs.fs, v.path, SymlinkFuel)
    IN  IF ~v.ok
          THEN fcall' = Did("file_write", raw, FALSE, v.message, {}) /\ fs' = fs
        ELSE IF ~dirs.ok
          THEN /\ fcall' = Did("file_write", raw, FALSE,
                               <<"Failed to create directories: ", "{e}">>, {})
               /\ fs' = fs
        ELSE IF ~file.ok
          THEN /\ fcall' = Did("file_write", raw, FALSE,
                               <<"Failed to write ", "{path}">>, made)
               /\ fs' = dirs.fs
        ELSE /\ fcall' = Did("file_write", raw, TRUE,
                             <<"Wrote ", "{bytes}", " bytes to ", "{path}">>,
                             made \cup {file.path})
             /\ fs' = IF file.path \in DOMAIN dirs.fs THEN dirs.fs
                      ELSE dirs.fs @@ (file.path :> [kind |-> "file", target |-> <<>>])

\* FileListTool::execute, flat or recursive.  ListRecursive is the set of
\* directories list_recursive reads: a real subdirectory is descended, a
\* link is descended when its target is a directory under the canonical
\* root.  (MAX_RECURSION_DEPTH = 20 is deeper than any tree here.)
FileList(raw, recursive) ==
    LET RECURSIVE ListRecursive(_)
        ListRecursive(read) ==
            LET canon_root == Walk(fs, <<>>, WorkspaceRoot, SymlinkFuel).path
                entries == { c \in DOMAIN fs : Len(c) > 0 /\ Front(c) \in read }
                target(c) == Walk(fs, <<>>, c, SymlinkFuel)
                next == read \cup
                        { target(c).path : c \in
                            { e \in entries :
                                /\ target(e).ok /\ IsDir(fs, target(e).path)
                                /\ fs[e].kind = "link" =>
                                     StartsWith(target(e).path, canon_root) } }
            IN  IF next = read THEN read ELSE ListRecursive(next)
        v == ValidatePath(fs, raw)
        r == Walk(fs, <<>>, v.path, SymlinkFuel)
    IN  /\ fcall' = IF ~v.ok THEN Did("file_list", raw, FALSE, v.message, {})
                    ELSE IF r.ok /\ IsDir(fs, r.path)
                      THEN Did("file_list", raw, TRUE, <<"{names}">>,
                               IF recursive THEN ListRecursive({r.path})
                                            ELSE {r.path})
                    ELSE Did("file_list", raw, FALSE,
                             <<"Failed to read directory ", "{path}">>, {})
        /\ fs' = fs

FilesInit ==
    /\ fs = Layout
    /\ fcall = Did("none", [abs |-> TRUE, comps |-> <<>>], TRUE, <<>>, {})
    /\ nfile = 0
    /\ providers = LegacyChain /\ health = NewHealth(providers)
    /\ fo = IdleFrame /\ nreq = 0
    /\ AgentOff
    /\ ExtOff("files")

FilesNext ==
    \E raw \in RawPaths :
       \/ /\ nfile < MaxFileCalls
          /\ nfile' = nfile + 1
          /\ FileRead(raw)
          /\ UNCHANGED <<chainVars, agentVars, concVars, webVars, schedVars, sm, sdir, fncall, chat>>
       \/ /\ nfile < MaxFileCalls
          /\ nfile' = nfile + 1
          /\ FileWrite(raw)
          /\ UNCHANGED <<chainVars, agentVars, concVars, webVars, schedVars, sm, sdir, fncall, chat>>
       \/ \E recursive \in BOOLEAN :
             /\ nfile < MaxFileCalls
             /\ nfile' = nfile + 1
             /\ FileList(raw, recursive)
             /\ UNCHANGED <<chainVars, agentVars, concVars, webVars, schedVars, sm, sdir, fncall, chat>>

SpecFiles == FilesInit /\ [][FilesNext]_vars

----------------------------------------------------------------------------
(* Web fetch: agent-tools/src/web_fetch.rs.  A host name is the sequence   *)
(* of its labels; an address is [v, o]: version 4 with four octets or      *)
(* version 6 with eight segments.  Ports are left out: every URL uses the  *)
(* default port of its scheme.                                             *)

\* if attempt.previous().len() >= 5
RedirectLimit == 5

\* IpAddr::V4 with its octets, IpAddr::V6 with its segments
Ip(v, o) == [v |-> v, o |-> o]

\* is_private_ip
IsPrivateIp(ip) ==
    LET v4(o) == \/ o[1] = 127
                 \/ o[1] = 10 \/ (o[1] = 172 /\ o[2] \in 16..31)
                 \/ (o[1] = 192 /\ o[2] = 168)
                 \/ (o[1] = 169 /\ o[2] = 254)
                 \/ o = <<255, 255, 255, 255>>
                 \/ o = <<0, 0, 0, 0>>
                 \/ (o[1] = 100 /\ o[2] \div 64 = 1)
        s == ip.o
    IN  IF ip.v = 4 THEN v4(s)
        ELSE \/ s = <<0, 0, 0, 0, 0, 0, 0, 1>>
             \/ s = <<0, 0, 0, 0, 0, 0, 0, 0>>
             \/ /\ SubSeq(s, 1, 6) = <<0, 0, 0, 0, 0, 65535>>
                /\ v4(<<s[7] \div 256, s[7] % 256, s[8] \div 256, s[8] % 256>>)
             \/ s[1] \div 512 = 126
             \/ s[1] \div 64 = 1018

\* a parsed Url: scheme and host (a domain name or a literal address)
Url(scheme, name, ip) == [scheme |-> scheme, name |-> name, ip |-> ip]

\* what the resolver may answer for a name, at any one query: the answer
\* of rebind.example changes from query to query
DnsAnswers(name) ==
    LET ok(addrs) == [ok |-> TRUE, addrs |-> addrs]
    IN  IF name = <<"pub", "example">> THEN { ok(<<Ip(4, <<93, 184, 216, 34>>)>>) }
        ELSE IF name = <<"cdn", "example">>
          THEN { ok(<<Ip(4, <<198, 51, 100, 9>>), Ip(6, <<9734, 0, 0, 0, 0, 0, 0, 1>>)>>) }
        ELSE IF name = <<"multi", "example">>
          THEN { ok(<<Ip(4, <<93, 184, 216, 34>>), Ip(4, <<10, 0, 0, 5>>)>>) }
        ELSE IF name = <<"rebind", "example">>
          THEN { ok(<<Ip(4, <<203, 0, 113, 7>>)>>), ok(<<Ip(4, <<127, 0, 0, 1>>)>>) }
        ELSE IF name = <<"localhost">> THEN { ok(<<Ip(4, <<127, 0, 0, 1>>)>>) }
        ELSE { ok(<<>>), [ok |-> FALSE, addrs |-> <<>>] }

\* redirect targets a server may name in a Location header
RedirectTargets ==
    { Url("http", <<"pub", "example">>, <<>>), Url("http", <<"rebind", "example">>, <<>>),
      Url("https", <<"cdn", "example">>, <<>>),
      Url("http", <<>>, <<Ip(4, <<169, 254, 169, 254>>)>>) }

\* the url arguments of the calls
Urls ==
    RedirectTargets \cup
    { Url("ftp", <<"pub", "example">>, <<>>), Url("file", <<>>, <<>>),
      Url("http", <<"multi", "example">>, <<>>), Url("http", <<"nx", "example">>, <<>>),
      Url("http", <<"localhost">>, <<>>), Url("https", <<"db", "internal">>, <<>>),
      Url("http", <<"metadata", "google", "internal">>, <<>>),
      Url("http", <<"printer", "local">>, <<>>),
      Url("http", <<>>, <<Ip(4, <<10, 0, 0, 5>>)>>), Url("http", <<>>, <<Ip(4, <<100, 64, 0, 1>>)>>),
      Url("http", <<>>, <<Ip(4, <<93, 184, 216, 34>>)>>),
      Url("http", <<>>, <<Ip(6, <<0, 0, 0, 0, 0, 0, 0, 1>>)>>),
      Url("http", <<>>, <<Ip(6, <<0, 0, 0, 0, 0, 65535, 2560, 5>>)>>),
      Url("http", <<>>, <<Ip(6, <<64768, 0, 0, 0, 0, 0, 0, 1>>)>>) }

\* (mutation) only the first resolved address is checked
AddrsRejected_First(addrs) == IsPrivateIp(addrs[1])

\* for addr in &addrs { if is_private_ip(&addr.ip()) { return Err } }
AddrsRejected(addrs) == \E i \in 1..Len(addrs) : IsPrivateIp(addrs[i])

\* validate_url_not_internal on url when the resolver answers ans:
\* Ok(ValidatedUrl) with the domain and the resolved addresses, or Err
ValidateUrl(url, ans) ==
    LET err(parts) == [ok |-> FALSE, domain |-> <<>>, addrs |-> <<>>, message |-> parts]
        n == url.name
    IN  IF url.scheme \notin {"http", "https"}
          THEN err(<<"Scheme '", "{scheme}", "' is not allowed (only http/https)">>)
        ELSE IF \/ n \in {<<"localhost">>, <<"metadata", "google", "internal">>}
                \/ Len(n) >= 2 /\ n[Len(n)] \in {"local", "internal", "localhost"}
          THEN err(<<"Host '", "{host}", "' is blocked (internal address)">>)
        ELSE IF url.ip # <<>>
          THEN IF IsPrivateIp(url.ip[1])
                 THEN err(<<"IP address ", "{ip}", " is a private/internal address">>)
                 ELSE [ok |-> TRUE, domain |-> <<>>, addrs |-> url.ip, message |-> <<>>]
        ELSE IF ~ans.ok
          THEN err(<<"DNS resolution failed for '", "{domain}", "': ", "{e}">>)
        ELSE IF ans.addrs = <<>>
          THEN err(<<"DNS returned no addresses for '", "{domain}", "'">>)
        ELSE IF AddrsRejected(ans.addrs)
          THEN err(<<"Host '", "{domain}", "' resolves to private/internal address ",
                     "{ip}">>)
        ELSE [ok |-> TRUE, domain |-> <<n>>, addrs |-> ans.addrs, message |-> <<>>]

\* the (host, address) pairs a successful validation has checked
Pairs(url, addrs) == { [name |-> url.name, ip |-> addrs[i]] : i \in 1..Len(addrs) }

\* no call is running
IdleFetch ==
    [pc |-> "idle", first |-> Url("", <<>>, <<>>), answer |-> [ok |-> FALSE, addrs |-> <<>>],
     url |-> Url("", <<>>, <<>>), pins |-> {}, previous |-> 0,
     last |-> [n |-> 0, valid |-> FALSE, followed |-> FALSE],
     ok |-> FALSE, message |-> <<>>]

\* WebFetchTool::execute up to client.get(..).send(): validate the url and
\* build the client, pinned to the resolved addresses for a domain
WebFetchBegin(url, ans) ==
    LET validated == ValidateUrl(url, ans)
    IN  /\ wf.pc \in {"idle", "done"}
        /\ wf' = [IdleFetch EXCEPT
                    !.first = url, !.answer = ans, !.url = url,
                    !.pc = IF validated.ok THEN "send" ELSE "done",
                    !.pins = IF validated.domain # <<>>
                               THEN Pairs(url, validated.addrs) ELSE {},
                    !.message = validated.message]
        /\ checked' = IF validated.ok THEN Pairs(url, validated.addrs) ELSE {}
        /\ conns' = {}

\* ssrf_safe_redirect_policy on a redirect to target, previous being the
\* URLs already requested in this chain, the first one included
RedirectPolicy(previous, validated) ==
    IF previous >= RedirectLimit
      THEN [follow |-> FALSE, message |-> <<"too many redirects">>]
    ELSE IF validated.ok THEN [follow |-> TRUE, message |-> <<>>]
    ELSE [follow |-> FALSE,
          message |-> <<"redirect blocked by SSRF check: ">> \o validated.message]

\* the client requests wf.url: it connects to the literal address, to a
\* pinned address of the host, or to an address the resolver answers now
\* (ans); the server answers with a body or with a redirect to target,
\* for which the resolver answers tans to the validation of the policy
WebRequest(ans, redirect, target, tans) ==
    LET u == wf.url
        pinned == { q.ip : q \in { r \in wf.pins : r.name = u.name } }
        addrs == IF u.ip # <<>> THEN {u.ip[1]}
                 ELSE IF pinned # {} THEN pinned
                 ELSE { ans.addrs[i] : i \in 1..Len(ans.addrs) }
        previous == wf.previous + 1
        validated == ValidateUrl(target, tans)
        policy == RedirectPolicy(previous, validated)
    IN  /\ wf.pc = "send"
        /\ IF addrs = {}
             THEN /\ wf' = [wf EXCEPT !.pc = "done", !.ok = FALSE,
                                      !.message = <<"Request failed: ", "{e}">>]
                  /\ UNCHANGED <<conns, checked>>
             ELSE /\ \E a \in addrs : conns' = conns \cup {[name |-> u.name, ip |-> a]}
                  /\ IF ~redirect
                       THEN /\ wf' = [wf EXCEPT !.pc = "done", !.ok = TRUE,
                                                !.message = <<"HTTP ", "{status}", "{body}">>]
                            /\ UNCHANGED checked
                       ELSE /\ wf' = [wf EXCEPT
                                        !.previous = previous,
                                        !.last = [n |-> previous, valid |-> validated.ok,
                                                  followed |-> policy.follow],
                                        !.url = IF policy.follow THEN target ELSE @,
                                        !.pc = IF policy.follow THEN "send" ELSE "done",
                                        !.message = IF policy.follow THEN @
                                                    ELSE <<"Request failed: ">>
                                                         \o policy.message]
                            /\ checked' = IF policy.follow
                                            THEN checked \cup Pairs(target, validated.addrs)
                                            ELSE checked

WebInit ==
    /\ wf = IdleFetch /\ conns = {} /\ checked = {}
    /\ providers = LegacyChain /\ health = NewHealth(providers)
    /\ fo = IdleFrame /\ nreq = 0
    /\ AgentOff
    /\ ExtOff("web")

WebNext ==
    \/ \E url \in Urls :
          \E ans \in DnsAnswers(url.name) :
             /\ WebFetchBegin(url, ans)
             /\ UNCHANGED <<chainVars, agentVars, concVars, fileVars, schedVars, sm, sdir, fncall, chat>>
    \/ \E ans \in DnsAnswers(wf.url.name) :
          /\ WebRequest(ans, FALSE, wf.url, ans)
          /\ UNCHANGED <<chainVars, agentVars, concVars, fileVars, schedVars, sm, sdir, fncall, chat>>
    \/ \E ans \in DnsAnswers(wf.url.name) :
          \E target \in RedirectTargets :
             \E tans \in DnsAnswers(target.name) :
                /\ WebRequest(ans, TRUE, target, tans)
                /\ UNCHANGED <<chainVars, agentVars, concVars, fileVars, schedVars, sm, sdir, fncall, chat>>

SpecWeb == WebInit /\ [][WebNext]_vars

----------------------------------------------------------------------------
(* Scheduler: agent-core/src/scheduler.rs.  Time is counted in units of    *)
(* six hours since a midnight.  A cron expression is the sequence of its   *)
(* fields; an Option is <<>> or <<v>>; a HashMap is a function on its      *)
(* keys.                                                                   *)

\* the latest instant of the clock
MaxClock == 5

\* calls of Scheduler::tick
MaxTicks == 3

\* chrono::Duration::hours(24)
Day == 4

\* parse_cron_expr: the fields padded to seven (sec min hour dom month dow
\* year), then Schedule::from_str: <<schedule>>, or <<>> for Err.  A
\* schedule is the period of its times and whether its year field admits
\* times that are still to come.
ParseCronExpr(expr) ==
    LET normalized == CASE Len(expr) = 5 -> <<"0">> \o expr \o <<"*">>
                        [] Len(expr) = 6 -> <<"0">> \o expr
                        [] OTHER -> expr
    IN  CASE normalized = <<"0", "0", "*/12", "*", "*", "*", "*">> ->
                <<[period |-> 2, live |-> TRUE]>>
          [] normalized = <<"0", "0", "0", "*", "*", "*", "*">> ->
                <<[period |-> 4, live |-> TRUE]>>
          [] normalized = <<"0", "0", "0", "*", "*", "*", "2020">> ->
                <<[period |-> 4, live |-> FALSE]>>
          [] OTHER -> <<>>

\* schedule.upcoming(Utc).next() read at instant t: the first time of the
\* schedule strictly after t
Upcoming(schedule, t) ==
    IF schedule.live THEN <<(t \div schedule.period + 1) * schedule.period>>
    ELSE <<>>

\* Vec<ScheduleConfig> as the configuration file gives it: nothing checks
\* that names differ
ScheduleConfigs ==
    LET Config(name, cron, workspace, kind, skill, prompt, enabled) ==
            [name |-> name, cron |-> cron, workspace |-> workspace, task |-> kind,
             skill |-> skill, prompt |-> prompt, enabled |-> enabled]
        cs == {Config("x", <<"0", "*/12", "*", "*", "*">>, <<>>, "prompt",
                      <<>>, <<>>, TRUE),
               Config("y", <<"0", "0", "*", "*", "*", "*">>, <<"ws1">>, "heartbeat",
                      <<"skill1">>, <<>>, TRUE),
               Config("y", <<"not", "valid", "cron">>, <<>>, "prompt",
                      <<>>, <<"Test prompt.">>, TRUE),
               Config("y", <<"0", "*/12", "*", "*", "*">>, <<"ws1">>, "custom",
                      <<>>, <<>>, FALSE),
               Config("y", <<"0", "0", "0", "*", "*", "*", "2020">>, <<>>, "custom",
                      <<>>, <<>>, TRUE),
               Config("x", <<"0", "0", "0", "*", "*", "*", "*">>, <<"ws1">>, "heartbeat",
                      <<>>, <<>>, TRUE)}
    IN  {<<c>> : c \in cs} \cup {<<p[1], p[2]>> : p \in {q \in cs \X cs : q[1] # q[2]}}

\* what the file at state_path may hold when the process starts: no file,
\* or the state an earlier run saved
StateFiles ==
    LET Saved(last_run, next_run, run_count, last_error) ==
            [last_run |-> last_run, next_run |-> next_run,
             run_count |-> run_count, last_error |-> last_error]
    IN  {<<>>,
         <<[n \in {"x"} |-> Saved(<<0>>, 0, 2, <<"boom">>)]>>,
         <<[n \in {"x", "y", "gone"} |-> Saved(<<0>>, 0, 1, <<>>)]>>,
         <<[n \in {"y"} |-> Saved(<<>>, 8, 0, <<>>)]>>}

SchedInit ==
    /\ sch = [pc |-> "none", schedules |-> <<>>, parsed |-> <<>>, state |-> <<>>,
              file |-> <<>>, own |-> FALSE]
    /\ clock = 0
    /\ tick = [n |-> 0, now |-> 0, pre |-> <<>>, post |-> <<>>, tasks |-> <<>>,
               fired |-> <<>>, first |-> 0, missed |-> {},
               save |-> "none", woke |-> 0, sleep |-> 0]
    /\ providers = LegacyChain /\ health = NewHealth(providers)
    /\ fo = IdleFrame /\ nreq = 0
    /\ AgentOff
    /\ ExtOff("sched")

\* Scheduler::new, with file the content of state_path. own (ghost) tells
\* whether a scheduler of this configuration wrote the file
SchedulerNew(schedules, file) ==
    LET now == clock
        parsed == [i \in 1..Len(schedules) |-> ParseCronExpr(schedules[i].cron)]
        \* state.insert runs in config order: the last insert of a name stays
        Inserted(name) ==
            LET is == {i \in 1..Len(schedules) :
                          parsed[i] # <<>> /\ schedules[i].name = name}
            IN  CHOOSE i \in is : \A j \in is : j <= i
        names == {schedules[i].name : i \in {j \in 1..Len(schedules) : parsed[j] # <<>>}}
        state == [name \in names |->
                     LET next == Upcoming(parsed[Inserted(name)][1], clock)
                     IN  [last_run |-> <<>>,
                          next_run |-> IF next # <<>> THEN next[1] ELSE now + Day,
                          run_count |-> 0,
                          last_error |-> <<>>]]
    IN  /\ sch' = [pc |-> "new", schedules |-> schedules, parsed |-> parsed,
                   state |-> state, file |-> file,
                   own |-> sch.pc # "none" /\ sch.own]
        /\ UNCHANGED <<clock, tick>>

\* (mutation) load_state keeps the next_run that new computed
LoadState_FreshNextRun ==
    /\ sch.pc = "new"
    /\ sch' = [sch EXCEPT
                  !.pc = "run",
                  !.state =
                      IF sch.file = <<>> THEN @
                      ELSE LET loaded == sch.file[1]
                           IN  [name \in DOMAIN @ |->
                                   IF name \in DOMAIN loaded
                                   THEN [last_run |-> loaded[name].last_run,
                                         next_run |-> @[name].next_run,
                                         run_count |-> loaded[name].run_count,
                                         last_error |-> loaded[name].last_error]
                                   ELSE @[name]]]
    /\ UNCHANGED <<clock, tick>>

\* Scheduler::load_state, called by run before its loop
LoadState ==
    /\ sch.pc = "new"
    /\ sch' = [sch EXCEPT
                  !.pc = "run",
                  !.state =
                      IF sch.file = <<>> THEN @
                      ELSE LET loaded == sch.file[1]
                           IN  [name \in DOMAIN @ |->
                                   IF name \in DOMAIN loaded
                                   THEN [last_run |-> loaded[name].last_run,
                                         next_run |-> loaded[name].next_run,
                                         run_count |-> loaded[name].run_count,
                                         last_error |-> loaded[name].last_error]
                                   ELSE @[name]]]
    /\ UNCHANGED <<clock, tick>>

\* one hour is a sixth of the unit of the clock: durations are in hours
HoursPerUnit == 6

\* (mutation) the next_run of the first schedule in place of the earliest
TimeUntilNextFire_First(s, now) ==
    LET live == {i \in 1..Len(s.schedules) :
                    /\ s.schedules[i].enabled /\ s.parsed[i] # <<>>
                    /\ s.schedules[i].name \in DOMAIN s.state}
        first == CHOOSE i \in live : \A j \in live : i <= j
        next == s.state[s.schedules[first].name].next_run
    IN  IF live = {} THEN 1
        ELSE IF next > now THEN (next - now) * HoursPerUnit ELSE 0

\* Scheduler::time_until_next_fire with now what Utc::now() gives it, in
\* hours. (next - now).to_std() cannot fail for next > now
TimeUntilNextFire(s, now) ==
    LET RECURSIVE Earliest(_, _)
        Earliest(i, earliest) ==
            IF i > Len(s.schedules) THEN earliest
            ELSE IF \/ ~s.schedules[i].enabled \/ s.parsed[i] = <<>>
                    \/ s.schedules[i].name \notin DOMAIN s.state
            THEN Earliest(i + 1, earliest)
            ELSE LET next_run == s.state[s.schedules[i].name].next_run
                 IN  IF earliest = <<>> \/ next_run < earliest[1]
                     THEN Earliest(i + 1, <<next_run>>)
                     ELSE Earliest(i + 1, earliest)
        earliest == Earliest(1, <<>>)
    IN  IF earliest = <<>> THEN 1
        ELSE IF earliest[1] > now THEN (earliest[1] - now) * HoursPerUnit
        ELSE 0

\* one pass of the loop of Scheduler::run up to its sleep: tick, the sends,
\* save_state when a task was fired, time_until_next_fire.  run goes on
\* when load_state returned an error, so that a pass also begins at pc
\* "new", with the state that new computed.  now is read first;
\* upcoming and time_until_next_fire read the clock again, d later.  open
\* is whether the receiver of the channel is still there when the tasks are
\* sent, w whether save_state succeeds ("ok") or fails before it wrote
\* ("fail").  The record tick keeps, besides the latest pass, the now of
\* the first call (first) and the schedules that were overdue when it began
\* (missed).
Tick(d, open, w) ==
    LET now == clock
        RECURSIVE Loop(_, _, _, _)
        Loop(i, state, tasks, fired) ==
            IF i > Len(sch.schedules)
            THEN [state |-> state, tasks |-> tasks, fired |-> fired]
            ELSE LET config == sch.schedules[i]
                 IN  IF \/ ~config.enabled
                        \/ sch.parsed[i] = <<>>
                        \/ config.name \notin DOMAIN state
                     THEN Loop(i + 1, state, tasks, fired)
                     ELSE IF now >= state[config.name].next_run
                     THEN LET workspace == IF config.workspace = <<>> THEN "default"
                                           ELSE config.workspace[1]
                              fire ==
                                  CASE config.task = "heartbeat" ->
                                         [kind |-> "Heartbeat",
                                          schedule_name |-> config.name,
                                          workspace |-> workspace,
                                          skill |-> IF config.skill = <<>> THEN ""
                                                    ELSE config.skill[1]]
                                    [] config.task = "prompt" ->
                                         [kind |-> "Prompt",
                                          schedule_name |-> config.name,
                                          workspace |-> workspace,
                                          prompt |-> IF config.prompt = <<>>
                                                     THEN "Perform your scheduled task."
                                                     ELSE config.prompt[1]]
                                    [] config.task = "custom" ->
                                         [kind |-> "Custom",
                                          schedule_name |-> config.name,
                                          workspace |-> workspace]
                              next == Upcoming(sch.parsed[i][1], clock + d)
                          IN  Loop(i + 1,
                                   [state EXCEPT ![config.name] =
                                       [last_run |-> <<now>>,
                                        next_run |-> IF next # <<>> THEN next[1]
                                                     ELSE @.next_run,
                                        run_count |-> @.run_count + 1,
                                        last_error |-> <<>>]],
                                   Append(tasks, fire), Append(fired, i))
                     ELSE Loop(i + 1, state, tasks, fired)
        r == Loop(1, sch.state, <<>>, <<>>)
        \* the schedules that load_state handed a next_run in the past
        missed == IF sch.pc = "run" /\ sch.file # <<>>
                  THEN {i \in 1..Len(sch.schedules) :
                           /\ sch.schedules[i].enabled
                           /\ sch.parsed[i] # <<>>
                           /\ sch.schedules[i].name \in DOMAIN sch.file[1]
                           /\ sch.file[1][sch.schedules[i].name].next_run < now}
                  ELSE {}
    IN  /\ sch.pc \in {"new", "run"}
        /\ tick.n < MaxTicks
        /\ clock + d <= MaxClock
        /\ clock' = clock + d
        /\ tick' = [n |-> tick.n + 1, now |-> now, pre |-> sch.state,
                    post |-> r.state, tasks |-> r.tasks, fired |-> r.fired,
                    first |-> IF tick.n = 0 THEN now ELSE tick.first,
                    missed |-> IF tick.n = 0 THEN missed ELSE tick.missed,
                    save |-> IF r.tasks # <<>> /\ open THEN w ELSE "none",
                    woke |-> clock + d,
                    sleep |-> IF r.tasks # <<>> /\ ~open THEN 0
                              ELSE TimeUntilNextFire([sch EXCEPT !.state = r.state],
                                                     clock + d)]
        \* tx.send(task).is_err(): return
        /\ sch' = [sch EXCEPT !.pc = IF r.tasks # <<>> /\ ~open THEN "stopped" ELSE "run",
                              !.state = r.state,
                              !.file = IF r.tasks # <<>> /\ open /\ w = "ok"
                                       THEN <<r.state>> ELSE @,
                              !.own = @ \/ (r.tasks # <<>> /\ open /\ w = "ok")]

\* time passes: the sleep of run, or the pause between two calls of tick
Pass ==
    /\ clock < MaxClock
    /\ clock' = clock + 1
    /\ UNCHANGED <<sch, tick>>

SchedNext ==
    \/ \E schedules \in ScheduleConfigs :
          \E file \in StateFiles :
             /\ sch.pc = "none"
             /\ SchedulerNew(schedules, file)
             /\ UNCHANGED <<chainVars, agentVars, concVars, fileVars, webVars, sm, sdir, fncall, chat>>
    \* run has returned and the process is started again on the same
    \* configuration and on the state file it wrote (a start on the file of
    \* some earlier run is the first disjunct)
    \/ /\ sch.pc = "stopped" /\ sch.own
       /\ SchedulerNew(sch.schedules, sch.file)
       /\ UNCHANGED <<chainVars, agentVars, concVars, fileVars, webVars, sm, sdir, fncall, chat>>
    \/ /\ LoadState
       /\ UNCHANGED <<chainVars, agentVars, concVars, fileVars, webVars, sm, sdir, fncall, chat>>
    \/ \E d \in {0, 1} :
          \E open \in BOOLEAN :
             \E w \in {"ok", "fail"} :
                /\ Tick(d, open, w)
                /\ UNCHANGED <<chainVars, agentVars, concVars, fileVars, webVars, sm, sdir,
                               fncall, chat>>
    \/ /\ Pass
       /\ UNCHANGED <<chainVars, agentVars, concVars, fileVars, webVars, sm, sdir, fncall, chat>>

SpecSched == SchedInit /\ [][SchedNext]_vars

----------------------------------------------------------------------------
(* Session store: agent-core/src/session.rs.  An id is a number: the uuids *)
(* of this run are 1, 2, ... in the order they are drawn, those of earlier *)
(* runs are 101, 102.  A file of sessions_dir is named <<stem, extension>> *)
(* and holds a Session or [corrupt |-> TRUE], anything serde_json rejects. *)
(* The fields of a Session that no operation below reads or writes         *)
(* (metadata, tags, notes, ...) are left out.                              *)

\* calls made on a manager
MaxSessionCalls == 3

\* the latest instant of the clock of a manager
MaxSessionClock == 2

\* Session::new
SessionNew(id, name, now) ==
    [id |-> id, name |-> name, messages |-> <<>>, created_at |-> now,
     updated_at |-> now, tool_allowlist |-> AllowNone, tool_denylist |-> {}]

PushMessage_Prepend(s, message, now) ==
    [s EXCEPT !.updated_at = now, !.messages = <<message>> \o @]

\* Session::push_message
PushMessage(s, message, now) ==
    [s EXCEPT !.updated_at = now, !.messages = Append(@, message)]

IsToolAllowed_AllowFirst(s, tool_name) ==
    IF s.tool_allowlist.some THEN tool_name \in s.tool_allowlist.names
    ELSE tool_name \notin s.tool_denylist

\* Session::is_tool_allowed
IsToolAllowed(s, tool_name) ==
    IF tool_name \in s.tool_denylist THEN FALSE
    ELSE IF s.tool_allowlist.some THEN tool_name \in s.tool_allowlist.names
    ELSE TRUE

\* Session::save_to and save_to_async on the directory dir: std::fs::write
\* succeeds (w = "ok") or fails before it touched the file ("fail")
SaveTo(dir, s, w) ==
    CASE w = "ok" -> (<<s.id, "json">> :> s) @@ dir
      [] w = "fail" -> dir

SessInit ==
    LET Stored(id, updated_at, messages, allow, deny) ==
            [SessionNew(id, "earlier", 0) EXCEPT
                !.updated_at = updated_at, !.messages = messages,
                !.tool_allowlist = allow, !.tool_denylist = deny]
        old1 == UserMessage(<<"old 1">>)
        old2 == AssistantMessage(<<"old 2">>)
        old3 == UserMessage(<<"old 3">>)
        a == Stored(101, 0, <<old1, old2, old3>>, AllowNone, {})
        b == Stored(102, 1, <<old1>>, AllowSome({"file_read", "ghost"}), {"file_read"})
        c == Stored(102, 0, <<>>, AllowSome({"shell_exec"}), {})
        d == Stored(101, 1, <<old1, old2>>, AllowNone, {"shell_exec"})
    IN  /\ sdir \in {<<>>,
                     (<<101, "json">> :> [corrupt |-> TRUE]),
                     (<<101, "json">> :> a) @@ (<<102, "json">> :> c),
                     (<<101, "json">> :> a) @@ (<<102, "json">> :> b)
                        @@ (<<103, "json">> :> [corrupt |-> TRUE]) @@ (<<104, "txt">> :> d),
                     (<<101, "json">> :> d) @@ (<<900, "json">> :> a)}
        /\ sm = [pc |-> "none", sessions |-> <<>>, active_session_id |-> <<>>,
                 max_history |-> 0, auto_save |-> FALSE, uuids |-> 0, calls |-> 0,
                 ret |-> [op |-> "none", ok |-> TRUE, value |-> <<>>]]
        /\ clock = 0
        /\ providers = LegacyChain /\ health = NewHealth(providers)
        /\ fo = IdleFrame /\ nreq = 0
        /\ AgentOff
        /\ ExtOff("sess")

ManagerNew_AnyActive(max_hist, auto_save, w) ==
    LET valid == {f \in DOMAIN sdir : f[2] = "json" /\ sdir[f] # [corrupt |-> TRUE]}
        ids == {sdir[f].id : f \in valid}
        \* load_all inserts under the id the file holds, in directory order:
        \* of two files with one id either may be read last
        loads == {[i \in ids |-> sdir[pick[i]]] :
                     pick \in {p \in [ids -> valid] : \A i \in ids : sdir[p[i]].id = i}}
        created == SessionNew(1, "default", clock)
        made == [sm EXCEPT !.pc = "up", !.max_history = max_hist,
                           !.auto_save = auto_save,
                           !.ret = [op |-> "new", ok |-> TRUE, value |-> <<>>]]
    IN  /\ sm.pc = "none"
        /\ \A f \in valid : sdir[f].updated_at <= clock
        /\ IF ids = {}
           THEN /\ sdir' = SaveTo(sdir, created, w)
                /\ sm' = IF w = "ok"
                         THEN [made EXCEPT !.sessions = (1 :> created),
                                           !.active_session_id = <<1>>,
                                           !.uuids = 1]
                         ELSE [sm EXCEPT !.pc = "failed",
                                         !.ret = [op |-> "new", ok |-> FALSE,
                                                  value |-> <<"Io">>]]
           ELSE /\ sdir' = sdir
                /\ \E sessions \in loads :
                      \* max_by_key: one of the sessions with the greatest key
                      \E most_recent \in ids :
                         sm' = [made EXCEPT !.sessions = sessions,
                                            !.active_session_id = <<most_recent>>]
        /\ UNCHANGED clock

\* SessionManager::new with load_all; the files were written before now
ManagerNew(max_hist, auto_save, w) ==
    LET valid == {f \in DOMAIN sdir : f[2] = "json" /\ sdir[f] # [corrupt |-> TRUE]}
        ids == {sdir[f].id : f \in valid}
        \* load_all inserts under the id the file holds, in directory order:
        \* of two files with one id either may be read last
        loads == {[i \in ids |-> sdir[pick[i]]] :
                     pick \in {p \in [ids -> valid] : \A i \in ids : sdir[p[i]].id = i}}
        created == SessionNew(1, "default", clock)
        made == [sm EXCEPT !.pc = "up", !.max_history = max_hist,
                           !.auto_save = auto_save,
                           !.ret = [op |-> "new", ok |-> TRUE, value |-> <<>>]]
    IN  /\ sm.pc = "none"
        /\ \A f \in valid : sdir[f].updated_at <= clock
        /\ IF ids = {}
           THEN /\ sdir' = SaveTo(sdir, created, w)
                /\ sm' = IF w = "ok"
                         THEN [made EXCEPT !.sessions = (1 :> created),
                                           !.active_session_id = <<1>>,
                                           !.uuids = 1]
                         ELSE [sm EXCEPT !.pc = "failed",
                                         !.ret = [op |-> "new", ok |-> FALSE,
                                                  value |-> <<"Io">>]]
           ELSE /\ sdir' = sdir
                /\ \E sessions \in loads :
                      \* max_by_key: one of the sessions with the greatest key
                      \E most_recent \in {i \in ids : \A j \in ids :
                                             sessions[j].updated_at <= sessions[i].updated_at} :
                         sm' = [made EXCEPT !.sessions = sessions,
                                            !.active_session_id = <<most_recent>>]
        /\ UNCHANGED clock

ManagerPush_Rollback(message, w) ==
    LET id == sm.active_session_id
        pushed == PushMessage(sm.sessions[id[1]], message, clock)
    IN  /\ sm.pc = "up"
        /\ sm.calls < MaxSessionCalls
        /\ IF id = <<>> \/ id[1] \notin DOMAIN sm.sessions
           THEN /\ sm' = [sm EXCEPT !.calls = @ + 1,
                                    !.ret = [op |-> "push_message", ok |-> FALSE,
                                             value |-> <<"Session", "No active session">>]]
                /\ sdir' = sdir
           ELSE /\ sm' = [sm EXCEPT !.calls = @ + 1,
                                    !.sessions[id[1]] =
                                        IF sm.auto_save /\ w # "ok" THEN @ ELSE pushed,
                                    !.ret = IF sm.auto_save /\ w # "ok"
                                            THEN [op |-> "push_message", ok |-> FALSE,
                                                  value |-> <<"Io">>]
                                            ELSE [op |-> "push_message", ok |-> TRUE,
                                                  value |-> <<>>]]
                /\ sdir' = IF sm.auto_save THEN SaveTo(sdir, pushed, w) ELSE sdir
        /\ UNCHANGED clock

\* SessionManager::push_message and push_message_async
ManagerPush(message, w) ==
    LET id == sm.active_session_id
        pushed == PushMessage(sm.sessions[id[1]], message, clock)
    IN  /\ sm.pc = "up"
        /\ sm.calls < MaxSessionCalls
        /\ IF id = <<>> \/ id[1] \notin DOMAIN sm.sessions
           THEN /\ sm' = [sm EXCEPT !.calls = @ + 1,
                                    !.ret = [op |-> "push_message", ok |-> FALSE,
                                             value |-> <<"Session", "No active session">>]]
                /\ sdir' = sdir
           ELSE /\ sm' = [sm EXCEPT !.calls = @ + 1,
                                    !.sessions[id[1]] = pushed,
                                    !.ret = IF sm.auto_save /\ w # "ok"
                                            THEN [op |-> "push_message", ok |-> FALSE,
                                                  value |-> <<"Io">>]
                                            ELSE [op |-> "push_message", ok |-> TRUE,
                                                  value |-> <<>>]]
                /\ sdir' = IF sm.auto_save THEN SaveTo(sdir, pushed, w) ELSE sdir
        /\ UNCHANGED clock

\* SessionManager::create_session
CreateSession(name, w) ==
    LET id == sm.uuids + 1
        created == SessionNew(id, name, clock)
    IN  /\ sm.pc = "up"
        /\ sm.calls < MaxSessionCalls
        /\ sm' = [sm EXCEPT !.calls = @ + 1,
                            !.uuids = id,
                            !.sessions = (id :> created) @@ @,
                            !.active_session_id = <<id>>,
                            !.ret = IF sm.auto_save /\ w # "ok"
                                    THEN [op |-> "create_session", ok |-> FALSE,
                                          value |-> <<"Io">>]
                                    ELSE [op |-> "create_session", ok |-> TRUE,
                                          value |-> <<id>>]]
        /\ sdir' = IF sm.auto_save THEN SaveTo(sdir, created, w) ELSE sdir
        /\ UNCHANGED clock

\* SessionManager::switch_session
SwitchSession(id) ==
    /\ sm.pc = "up"
    /\ sm.calls < MaxSessionCalls
    /\ sm' = IF id \in DOMAIN sm.sessions
             THEN [sm EXCEPT !.calls = @ + 1,
                             !.active_session_id = <<id>>,
                             !.ret = [op |-> "switch_session", ok |-> TRUE,
                                      value |-> <<>>]]
             ELSE [sm EXCEPT !.calls = @ + 1,
                             !.ret = [op |-> "switch_session", ok |-> FALSE,
                                      value |-> <<"Session", "Session not found: ", id>>]]
    /\ UNCHANGED <<sdir, clock>>

\* SessionManager::delete_session; rm is whether remove_file succeeds
DeleteSession(id, rm, w) ==
    LET removed == [i \in DOMAIN sm.sessions \ {id} |-> sm.sessions[i]]
        path == <<id, "json">>
        unlinked == [f \in DOMAIN sdir \ {path} |-> sdir[f]]
        fresh == sm.uuids + 1
        created == SessionNew(fresh, "default", clock)
    IN  /\ sm.pc = "up"
        /\ sm.calls < MaxSessionCalls
        /\ IF path \in DOMAIN sdir /\ ~rm
           THEN /\ sm' = [sm EXCEPT !.calls = @ + 1,
                                    !.sessions = removed,
                                    !.ret = [op |-> "delete_session", ok |-> FALSE,
                                             value |-> <<"Io">>]]
                /\ sdir' = sdir
           ELSE IF sm.active_session_id # <<id>>
           THEN /\ sm' = [sm EXCEPT !.calls = @ + 1,
                                    !.sessions = removed,
                                    !.ret = [op |-> "delete_session", ok |-> TRUE,
                                             value |-> <<>>]]
                /\ sdir' = unlinked
           ELSE IF DOMAIN removed # {}
           THEN /\ \E next \in DOMAIN removed :   \* keys().next(): any key
                      sm' = [sm EXCEPT !.calls = @ + 1,
                                       !.sessions = removed,
                                       !.active_session_id = <<next>>,
                                       !.ret = [op |-> "delete_session", ok |-> TRUE,
                                                value |-> <<>>]]
                /\ sdir' = unlinked
           ELSE /\ sm' = [sm EXCEPT !.calls = @ + 1,
                                    !.uuids = fresh,
                                    !.sessions = (fresh :> created),
                                    !.active_session_id = <<fresh>>,
                                    !.ret = IF sm.auto_save /\ w # "ok"
                                            THEN [op |-> "delete_session", ok |-> FALSE,
                                                  value |-> <<"Io">>]
                                            ELSE [op |-> "delete_session", ok |-> TRUE,
                                                  value |-> <<>>]]
                /\ sdir' = IF sm.auto_save THEN SaveTo(unlinked, created, w)
                           ELSE unlinked
        /\ UNCHANGED clock

SessNext ==
    \/ \E max_hist \in {0, 2}, auto_save \in BOOLEAN, w \in {"ok", "fail"} :
          /\ ManagerNew(max_hist, auto_save, w)
          /\ UNCHANGED <<chainVars, agentVars, concVars, fileVars, webVars, sch, tick, fncall, chat>>
    \/ \E message \in {UserMessage(<<"message", sm.calls + 1>>)} :
          \E w \in {"ok", "fail"} :
             /\ ManagerPush(message, w)
             /\ UNCHANGED <<chainVars, agentVars, concVars, fileVars, webVars, sch, tick, fncall, chat>>
    \/ \E w \in {"ok", "fail"} :
          /\ CreateSession("work", w)
          /\ UNCHANGED <<chainVars, agentVars, concVars, fileVars, webVars, sch, tick, fncall, chat>>
    \/ \E id \in DOMAIN sm.sessions \cup {999} :
          /\ SwitchSession(id)
          /\ UNCHANGED <<chainVars, agentVars, concVars, fileVars, webVars, sch, tick, fncall, chat>>
    \/ \E id \in DOMAIN sm.sessions \cup {999} :
          \E rm \in BOOLEAN, w \in {"ok", "fail"} :
             /\ DeleteSession(id, rm, w)
             /\ UNCHANGED <<chainVars, agentVars, concVars, fileVars, webVars, sch, tick, fncall, chat>>
    \* SessionManager::recent_messages
    \/ /\ sm.pc = "up"
       /\ sm.calls < MaxSessionCalls
       /\ sm' = [sm EXCEPT !.calls = @ + 1, !.ret =
                    [op |-> "recent_messages", ok |-> TRUE,
                     value |-> IF /\ sm.active_session_id # <<>>
                                  /\ sm.active_session_id[1] \in DOMAIN sm.sessions
                               THEN RecentMessages(
                                       sm.sessions[sm.active_session_id[1]].messages,
                                       sm.max_history)
                               ELSE <<>>]]
       /\ UNCHANGED <<chainVars, agentVars, concVars, fileVars, webVars, sch, tick, fncall, chat,
                      sdir, clock>>
    \* time passes between two calls
    \/ /\ sm.pc # "failed"
       /\ clock < MaxSessionClock
       /\ clock' = clock + 1
       /\ UNCHANGED <<chainVars, agentVars, concVars, fileVars, webVars, sch, tick, fncall, chat,
                      sm, sdir>>

SpecSess == SessInit /\ [][SessNext]_vars

----------------------------------------------------------------------------
(* Functions of their arguments alone: the body capture of web_fetch, the  *)
(* recursive listing of file_list on a file system that stands still, the  *)
(* docker command line of the sandbox and the bearer check of the server.  *)
(* fncall holds one call: its arguments from the start, its result once    *)
(* the function has run, and for the listing the state of its loop.        *)

\* web_fetch.rs:53
MAX_BODY_BYTES == 2097152

\* the streaming loop and the truncation at the end of WebFetchTool::execute.
\* The response body arrives in chunks, each a number of bytes, and is made
\* of characters of `width` bytes each (1: ASCII). kept_bytes and kept_chars
\* are the bytes and the whole characters of the body that the result
\* carries before the indicator; a panic is the slice &body[..max_length]
\* off a character boundary
CaptureBody(chunks, width, max_length) ==
    LET RECURSIVE Stream(_, _)
        \* <<buf.len(), hit_limit>> when the loop is left
        Stream(i, len) ==
            IF i > Len(chunks) THEN <<len, FALSE>>
            ELSE IF len + chunks[i] >= MAX_BODY_BYTES THEN <<MAX_BODY_BYTES, TRUE>>
            ELSE Stream(i + 1, len + chunks[i])
        buf == Stream(1, 0)[1]
        hit_limit == Stream(1, 0)[2]
        whole == (buf \div width) * width
        \* from_utf8_lossy: the bytes of a character cut by truncate() become
        \* one U+FFFD, three bytes long
        body_len == IF buf = whole THEN buf ELSE whole + 3
        is_char_boundary(n) == n = body_len \/ (n <= whole /\ n % width = 0)
    IN  IF body_len > max_length
        THEN IF is_char_boundary(max_length)
             THEN [kind |-> "ok", kept_bytes |-> max_length,
                   kept_chars |-> max_length \div width,
                   indicator |-> <<"... [truncated, ", body_len, " total chars",
                                   IF hit_limit THEN ", response exceeded 2MB limit"
                                   ELSE "", "]">>]
             ELSE [kind |-> "panic", kept_bytes |-> 0, kept_chars |-> 0,
                   indicator |-> <<>>]
        ELSE IF hit_limit
        THEN [kind |-> "ok", kept_bytes |-> whole, kept_chars |-> whole \div width,
              indicator |-> <<"... [truncated at 2MB limit]">>]
        ELSE [kind |-> "ok", kept_bytes |-> whole, kept_chars |-> whole \div width,
              indicator |-> <<>>]

\* SandboxExecutor::docker_base_args: the options of `docker run` that
\* docker_run and docker_run_stdin share. An argument is the sequence of the
\* parts it is formatted from; memory_limit is <<>> (None) or <<bytes>>
DockerBaseArgs_NoReadOnly(ex) ==
    << <<"run">>, <<"--rm">>, <<"--network=none">> >>
    \o (IF ex.memory_limit = <<>> THEN <<>>
        ELSE << <<"--memory">>, <<ex.memory_limit[1] \div (1024 * 1024), "m">> >>)
    \o << <<"--stop-timeout">>, <<ex.timeout_secs, "s">>,
          <<"-w">>, <<ex.work_dir>>,
          <<"--tmpfs">>, <<"/tmp:rw,noexec,nosuid,size=64m">>,
          <<"--tmpfs">>, <<"/workspace:rw,noexec,nosuid,size=64m">> >>

DockerBaseArgs(ex) ==
    << <<"run">>, <<"--rm">>, <<"--network=none">>, <<"--read-only">> >>
    \o (IF ex.memory_limit = <<>> THEN <<>>
        ELSE << <<"--memory">>, <<ex.memory_limit[1] \div (1024 * 1024), "m">> >>)
    \o << <<"--stop-timeout">>, <<ex.timeout_secs, "s">>,
          <<"-w">>, <<ex.work_dir>>,
          <<"--tmpfs">>, <<"/tmp:rw,noexec,nosuid,size=64m">>,
          <<"--tmpfs">>, <<"/workspace:rw,noexec,nosuid,size=64m">> >>

\* exec_shell and exec_python with the functions they dispatch to
\* (exec_*_unsafe, exec_*_docker, docker_run, docker_run_stdin): the process
\* that is spawned, its arguments and what is written to its stdin
SandboxExec(ex, entry, input) ==
    CASE ex.mode = "Unsafe" /\ entry = "exec_shell" ->
            [program |-> "bash", args |-> << <<"-c">>, <<input>> >>, stdin |-> <<>>]
      [] ex.mode = "Unsafe" /\ entry = "exec_python" ->
            [program |-> "python3", args |-> << <<"-c">>, <<input>> >>, stdin |-> <<>>]
      [] ex.mode = "Docker" /\ entry = "exec_shell" ->
            [program |-> "docker",
             args |-> DockerBaseArgs(ex) \o << <<ex.docker_image>> >>
                        \o << <<"bash">>, <<"-c">>, <<input>> >>,
             stdin |-> <<>>]
      [] ex.mode = "Docker" /\ entry = "exec_python" ->
            [program |-> "docker",
             args |-> DockerBaseArgs(ex) \o << <<"-i">>, <<ex.docker_image>> >>
                        \o << <<"python3">>, <<"-">> >>,
             stdin |-> <<input>>]

\* auth_middleware: auth_token is <<>> (None) or <<token>>, authorization the
\* values of the Authorization headers of the request in their order, every
\* value and the token a sequence of characters. TRUE: next.run(req); FALSE:
\* 401. HeaderValue::to_str fails on a character that is not visible ASCII
\* (here: any character of more than one byte, written "é")
AuthMiddleware_TokenPrefix(auth_token, authorization) ==
    LET value == authorization[1]
        provided == SubSeq(value, 8, Len(value))
        expected == auth_token[1]
    IN  IF auth_token = <<>> THEN TRUE
        ELSE IF authorization = <<>> THEN FALSE
        ELSE IF \E i \in 1..Len(value) : value[i] = "é" THEN FALSE
        ELSE IF Len(value) >= 7 /\ SubSeq(value, 1, 7) = <<"B", "e", "a", "r", "e", "r", " ">>
        THEN /\ Len(provided) >= Len(expected)
             /\ \A i \in 1..Len(expected) : provided[i] = expected[i]
        ELSE FALSE

AuthMiddleware(auth_token, authorization) ==
    LET value == authorization[1]
        provided == SubSeq(value, 8, Len(value))
        expected == auth_token[1]
    IN  IF auth_token = <<>> THEN TRUE
        ELSE IF authorization = <<>> THEN FALSE
        ELSE IF \E i \in 1..Len(value) : value[i] = "é" THEN FALSE
        ELSE IF Len(value) >= 7 /\ SubSeq(value, 1, 7) = <<"B", "e", "a", "r", "e", "r", " ">>
        \* ct_eq of two byte slices: unequal lengths are unequal
        THEN /\ Len(provided) = Len(expected)
             /\ \A i \in 1..Len(expected) : provided[i] = expected[i]
        ELSE FALSE

\* build_router: the routes under the auth layer, the public /health and the
\* fallback of the single-page application. reached is <<>> or <<handler>>
BuildRouter(auth_token, req) ==
    IF req.path \in {"/v1/chat/completions", "/v1/sessions", "/v1/config"}
    THEN IF AuthMiddleware(auth_token, req.authorization)
         THEN [status |-> 200, reached |-> <<req.path>>]
         ELSE [status |-> 401, reached |-> <<>>]
    ELSE IF req.path = "/health" THEN [status |-> 200, reached |-> <<"/health">>]
    ELSE [status |-> 200, reached |-> <<"spa">>]

\* file_ops.rs:342
MAX_RECURSION_DEPTH == 20

\* list_recursive, one step of the outer loop: pop the stack; an entry at the
\* depth limit is dropped, any other directory is read. pending holds the
\* names read_dir has not handed out yet, reads (ghost) the directories read
\* so far with their canonical paths, capped (ghost) the entries dropped
ListPop ==
    LET c == fncall
        top == c.stack[Len(c.stack)]
        canon == Walk(c.args.fs, <<>>, top.dir, SymlinkFuel)
    IN  /\ c.fn = "list_recursive" /\ ~c.done
        /\ c.pending = {} /\ c.stack # <<>>
        /\ fncall' =
             IF top.depth >= MAX_RECURSION_DEPTH
             THEN [c EXCEPT !.stack = Front(c.stack), !.capped = @ \cup {top.dir}]
             ELSE IF ~(canon.ok /\ IsDir(c.args.fs, canon.path))
             THEN [c EXCEPT !.stack = Front(c.stack), !.done = TRUE,
                            !.ret = [ok |-> FALSE,
                                     value |-> <<"Failed to read directory ", top.dir>>]]
             ELSE [c EXCEPT !.stack = Front(c.stack), !.cur = top,
                            !.pending = {p[Len(p)] : p \in
                                           {q \in DOMAIN c.args.fs :
                                              Len(q) > 0 /\ Front(q) = canon.path}},
                            !.reads = Append(@, [dir |-> top.dir, canon |-> canon.path,
                                                 depth |-> top.depth])]

\* list_recursive, the body of the inner loop for the entry `name` of the
\* directory being read (read_dir hands the entries out in any order). A
\* line of the result is the displayed path and what follows it
ListEntry_NoRootCheck(name) ==
    LET c == fncall
        f == c.args.fs
        display == Append(c.cur.dir, name)
        ft == f[Append(Walk(f, <<>>, c.cur.dir, SymlinkFuel).path, name)].kind
        target == Walk(f, <<>>, display, SymlinkFuel)
        Line(note) == [path |-> display, note |-> note]
        Descend == [c EXCEPT !.pending = @ \ {name},
                             !.visited = @ \cup (IF target.ok THEN {target.path} ELSE {}),
                             !.result = @ \cup {Line("/")},
                             !.stack = Append(@, [dir |-> display,
                                                  depth |-> c.cur.depth + 1])]
        Push(note) == [c EXCEPT !.pending = @ \ {name}, !.result = @ \cup {Line(note)}]
    IN  /\ c.fn = "list_recursive" /\ ~c.done
        /\ name \in c.pending
        /\ fncall' =
             IF ft = "link"
             THEN IF ~target.ok THEN Push(" -> [broken symlink]")
                  ELSE IF IsDir(f, target.path)
                  THEN IF target.path \notin c.visited THEN Descend
                       ELSE Push(" -> [symlink cycle, skipped]")
                  ELSE Push("")
             ELSE IF ft = "dir"
             THEN IF ~target.ok \/ target.path \notin c.visited THEN Descend
                  ELSE [c EXCEPT !.pending = @ \ {name}]
             ELSE Push("")

ListEntry_NoVisited(name) ==
    LET c == fncall
        f == c.args.fs
        display == Append(c.cur.dir, name)
        ft == f[Append(Walk(f, <<>>, c.cur.dir, SymlinkFuel).path, name)].kind
        target == Walk(f, <<>>, display, SymlinkFuel)
        canon_root == Walk(f, <<>>, c.args.workspace_root[1], SymlinkFuel)
        Line(note) == [path |-> display, note |-> note]
        Descend == [c EXCEPT !.pending = @ \ {name},
                             !.visited = @ \cup (IF target.ok THEN {target.path} ELSE {}),
                             !.result = @ \cup {Line("/")},
                             !.stack = Append(@, [dir |-> display,
                                                  depth |-> c.cur.depth + 1])]
        Push(note) == [c EXCEPT !.pending = @ \ {name}, !.result = @ \cup {Line(note)}]
    IN  /\ c.fn = "list_recursive" /\ ~c.done
        /\ name \in c.pending
        /\ fncall' =
             IF ft = "link"
             THEN IF ~target.ok THEN Push(" -> [broken symlink]")
                  ELSE IF /\ c.args.workspace_root # <<>>
                          /\ canon_root.ok
                          /\ ~StartsWith(target.path, canon_root.path)
                  THEN Push(" -> [symlink outside workspace, skipped]")
                  ELSE IF IsDir(f, target.path) THEN Descend
                  ELSE Push("")
             ELSE IF ft = "dir" THEN Descend
             ELSE Push("")

ListEntry(name) ==
    LET c == fncall
        f == c.args.fs
        display == Append(c.cur.dir, name)
        \* entry.file_type(): of the entry itself, no link followed
        ft == f[Append(Walk(f, <<>>, c.cur.dir, SymlinkFuel).path, name)].kind
        \* canonicalize(&path)
        target == Walk(f, <<>>, display, SymlinkFuel)
        canon_root == Walk(f, <<>>, c.args.workspace_root[1], SymlinkFuel)
        Line(note) == [path |-> display, note |-> note]
        Descend == [c EXCEPT !.pending = @ \ {name},
                             !.visited = @ \cup (IF target.ok THEN {target.path} ELSE {}),
                             !.result = @ \cup {Line("/")},
                             !.stack = Append(@, [dir |-> display,
                                                  depth |-> c.cur.depth + 1])]
        Push(note) == [c EXCEPT !.pending = @ \ {name}, !.result = @ \cup {Line(note)}]
    IN  /\ c.fn = "list_recursive" /\ ~c.done
        /\ name \in c.pending
        /\ fncall' =
             IF ft = "link"
             THEN IF ~target.ok THEN Push(" -> [broken symlink]")
                  ELSE IF /\ c.args.workspace_root # <<>>
                          /\ canon_root.ok
                          /\ ~StartsWith(target.path, canon_root.path)
                  THEN Push(" -> [symlink outside workspace, skipped]")
                  ELSE IF IsDir(f, target.path)
                  THEN IF target.path \notin c.visited THEN Descend
                       ELSE Push(" -> [symlink cycle, skipped]")
                  ELSE Push("")
             ELSE IF ft = "dir"
             \* canon.is_none_or(|c| visited.insert(c))
             THEN IF ~target.ok \/ target.path \notin c.visited THEN Descend
                  ELSE [c EXCEPT !.pending = @ \ {name}]
             ELSE Push("")

FnInit ==
    LET RECURSIVE Total(_)
        Total(chunks) == IF chunks = <<>> THEN 0 ELSE Head(chunks) + Total(Tail(chunks))
        Bodies == {<<>>, <<6>>, <<4, 8>>, <<0, 12>>, <<MAX_BODY_BYTES - 2>>,
                   <<MAX_BODY_BYTES>>, <<MAX_BODY_BYTES - 1, 1>>,
                   <<MAX_BODY_BYTES, 6>>, <<MAX_BODY_BYTES - 2, 3>>,
                   <<MAX_BODY_BYTES + 4>>}
        Lengths == {0, 3, 4, 6, 10000, MAX_BODY_BYTES, MAX_BODY_BYTES + 6}
        Fetches == {[chunks |-> b, width |-> w, max_length |-> m] :
                        b \in Bodies, w \in {1, 2, 3}, m \in Lengths}
        Executors == {[mode |-> mode, docker_image |-> "python:3.12-slim",
                       timeout_secs |-> 30, memory_limit |-> mem, work_dir |-> dir] :
                        mode \in {"Docker", "Unsafe"},
                        mem \in {<<>>, <<512 * 1024 * 1024>>, <<3 * 1024 * 1024 + 17>>,
                                 <<1000>>},
                        dir \in {"/workspace", "/srv/job"}}
        Bearer == <<"B", "e", "a", "r", "e", "r", " ">>
        Values == {Bearer \o <<"s", "k">>, Bearer \o <<"s", "k", "2">>,
                   Bearer \o <<"s">>, Bearer, Bearer \o <<" ", "s", "k">>,
                   Bearer \o <<"s", "k", " ">>, Bearer \o <<"s", "é">>,
                   <<"b", "e", "a", "r", "e", "r", " ", "s", "k">>,
                   <<"B", "a", "s", "i", "c", " ", "s", "k">>, <<"s", "k">>,
                   <<"B", "e", "a", "r", "e", "r", "s", "k">>}
        Requests == {[path |-> p, authorization |-> h] :
                        p \in {"/v1/chat/completions", "/v1/sessions", "/health", "/"},
                        h \in {<<>>} \cup {<<v>> : v \in Values}
                              \cup {<<Bearer \o <<"s", "k">>, <<"s", "k">> >>,
                                    << <<"s", "k">>, Bearer \o <<"s", "k">> >>}}
        d == [kind |-> "dir", target |-> <<>>]
        l(t) == [kind |-> "link", target |-> t]
        \* a workspace whose links lead back into it, to each other, out of
        \* it and to the root of the file system
        Cyclic == (<<"ws">> :> d) @@ (<<"ws", "a">> :> d)
                  @@ (<<"ws", "a", "f.txt">> :> [kind |-> "file", target |-> <<>>])
                  @@ (<<"ws", "a", "loop">> :> l(<<"ws">>))
                  @@ (<<"ws", "a", "self">> :> l(<<"ws", "a">>))
                  @@ (<<"ws", "a", "esc">> :> l(<<"etc", "passwd">>))
                  @@ (<<"ws", "b">> :> l(<<"ws", "a">>))
                  @@ (<<"ws", "x">> :> l(<<"ws", "y">>))
                  @@ (<<"ws", "y">> :> l(<<"ws", "x">>))
                  @@ (<<"ws", "up">> :> l(<<>>))
                  @@ (<<"etc">> :> d)
                  @@ (<<"etc", "passwd">> :> [kind |-> "file", target |-> <<>>])
        \* a workspace with directories nested deeper than the depth limit
        Nested(k) == <<"ws">> \o [i \in 1..k |-> "n"]
        Deep == [q \in {Nested(k) : k \in 0..(MAX_RECURSION_DEPTH + 2)} |-> d]
                @@ (<<"ws", "loop">> :> l(<<"ws">>))
                @@ (<<"ws", "far">> :> l(Nested(MAX_RECURSION_DEPTH + 1)))
        Listings == {[fs |-> Layout, current |-> <<"ws">>, workspace_root |-> r] :
                        r \in {<<>>, <<WorkspaceRoot>>}}
                    \cup {[fs |-> Layout, current |-> <<"ws", "sub">>,
                           workspace_root |-> <<WorkspaceRoot>>]}
                    \cup {[fs |-> Cyclic, current |-> c, workspace_root |-> r] :
                            c \in {<<"ws">>, <<"ws", "a">>},
                            r \in {<<>>, <<WorkspaceRoot>>}}
                    \cup {[fs |-> Deep, current |-> <<"ws">>,
                           workspace_root |-> <<WorkspaceRoot>>]}
    IN  /\ fncall \in
              \* list_recursive up to its loop: the stack holds the start
              \* directory, visited its canonical path
              {[fn |-> "list_recursive", args |-> a, done |-> FALSE, ret |-> <<>>,
                stack |-> <<[dir |-> a.current, depth |-> 0]>>,
                visited |-> {Walk(a.fs, <<>>, a.current, SymlinkFuel).path},
                result |-> {}, pending |-> {}, cur |-> [dir |-> <<>>, depth |-> 0],
                reads |-> <<>>, capped |-> {}] : a \in Listings}
              \cup
              {[fn |-> "web_fetch", args |-> a, done |-> FALSE, ret |-> <<>>] :
                  a \in {f \in Fetches : Total(f.chunks) % f.width = 0}}
              \cup {[fn |-> e, args |-> [ex |-> x, input |-> "print(1)"],
                     done |-> FALSE, ret |-> <<>>] :
                       e \in {"exec_shell", "exec_python"}, x \in Executors}
              \cup {[fn |-> "request", args |-> [auth_token |-> t, req |-> r],
                     done |-> FALSE, ret |-> <<>>] :
                       t \in {<<>>, << <<"s", "k">> >>, << <<"s", "k", "2">> >>, << <<>> >>},
                       r \in Requests}
        /\ clock = 0
        /\ providers = LegacyChain /\ health = NewHealth(providers)
        /\ fo = IdleFrame /\ nreq = 0
        /\ AgentOff
        /\ ExtOff("fn")

FnNext ==
    \/ /\ ListPop
       /\ UNCHANGED <<chainVars, agentVars, concVars, fileVars, webVars, schedVars,
                      sm, sdir, chat>>
    \/ \E name \in (IF fncall.fn = "list_recursive" THEN fncall.pending ELSE {}) :
          /\ ListEntry(name)
          /\ UNCHANGED <<chainVars, agentVars, concVars, fileVars, webVars, schedVars,
                         sm, sdir, chat>>
    \* result.sort() and join: the lines are pairwise different, the listing
    \* is given as their set
    \/ /\ fncall.fn = "list_recursive" /\ ~fncall.done
       /\ fncall.pending = {} /\ fncall.stack = <<>>
       /\ fncall' = [fncall EXCEPT !.done = TRUE,
                        !.ret = [ok |-> TRUE, value |-> fncall.result]]
       /\ UNCHANGED <<chainVars, agentVars, concVars, fileVars, webVars, schedVars,
                      sm, sdir, chat>>
    \/ /\ fncall.fn = "web_fetch" /\ ~fncall.done
       /\ fncall' = [fncall EXCEPT !.done = TRUE,
                        !.ret = CaptureBody(fncall.args.chunks, fncall.args.width,
                                            fncall.args.max_length)]
       /\ UNCHANGED <<chainVars, agentVars, concVars, fileVars, webVars, schedVars,
                      sm, sdir, chat>>
    \/ /\ fncall.fn \in {"exec_shell", "exec_python"} /\ ~fncall.done
       /\ fncall' = [fncall EXCEPT !.done = TRUE,
                        !.ret = SandboxExec(fncall.args.ex, fncall.fn, fncall.args.input)]
       /\ UNCHANGED <<chainVars, agentVars, concVars, fileVars, webVars, schedVars,
                      sm, sdir, chat>>
    \/ /\ fncall.fn = "request" /\ ~fncall.done
       /\ fncall' = [fncall EXCEPT !.done = TRUE,
                        !.ret = BuildRouter(fncall.args.auth_token, fncall.args.req)]
       /\ UNCHANGED <<chainVars, agentVars, concVars, fileVars, webVars, schedVars,
                      sm, sdir, chat>>

SpecFn == FnInit /\ [][FnNext]_vars

\* the task that runs a call keeps being polled until the call returns
SpecFnLive == SpecFn /\ WF_vars(FnNext)

----------------------------------------------------------------------------
(* Properties of the provider chain, checked under SpecChain.              *)

ProviderOf(name) == CHOOSE p \in Range(providers) : p.name = name

\* the providers that match the role of the current call and were Healthy
\* when it started
EntryCandidates ==
    { p \in Range(providers) :
        /\ fo.role = NoRole \/ p.roles = {} \/ fo.role \in p.roles
        /\ fo.entry[p.name].consecutive_failures < p.max_retries }

InvokedNames == { fo.invoked[i].name : i \in 1..Len(fo.invoked) }

AllTransient == \A i \in 1..Len(fo.invoked) : fo.invoked[i].kind = "Transient"

\* C9: request_with_failover calls the closure on the candidates (role
\* matching, Healthy at entry) in ascending priority order, each at most
\* once, and stops at the first success; a Transient answer records one
\* failure and moves on, a success records success and is returned; when
\* every candidate answered Transient the call returns "All providers
\* failed" with one failure recorded per candidate.
C9_FailoverOrder ==
    fo.status # "idle" =>
      LET inv == fo.invoked
          n == Len(inv)
      IN  /\ Len(fo.recorded) = n
          /\ \A i \in 1..n : ProviderOf(inv[i].name) \in EntryCandidates
          /\ \A i, j \in 1..n :
                i < j => /\ inv[i].name # inv[j].name
                         /\ ProviderOf(inv[i].name).priority
                              <= ProviderOf(inv[j].name).priority
          /\ \A p \in EntryCandidates : \A i \in 1..n :
                p.name \notin InvokedNames
                  => ProviderOf(inv[i].name).priority <= p.priority
          /\ \A i \in 1..n :
                inv[i].kind = "Ok"
                  => /\ i = n
                     /\ fo.status = "ok"
                     /\ fo.recorded[i] = <<inv[i].name, "success">>
                     /\ health[inv[i].name].consecutive_failures = 0
          /\ \A i \in 1..n :
                inv[i].kind = "Transient"
                  => /\ fo.recorded[i] = <<inv[i].name, "failure">>
                     /\ health[inv[i].name].consecutive_failures
                          = fo.entry[inv[i].name].consecutive_failures + 1
                     /\ health[inv[i].name].total_failures
                          = fo.entry[inv[i].name].total_failures + 1
          /\ fo.status = "ok" => n >= 1 /\ inv[n].kind = "Ok"
          /\ fo.status = "running" => AllTransient /\ n < Cardinality(EntryCandidates)
          /\ (AllTransient /\ n = Cardinality(EntryCandidates) /\ n > 0)
                => /\ fo.status = "err"
                   /\ fo.error.variant = "Provider"
                   /\ fo.error.parts[1] = "All providers failed: "

\* a Transient from the first candidate, then success from the second
C9_Witness ==
    /\ fo.status = "ok"
    /\ Len(fo.invoked) = 2
    /\ fo.invoked[1].kind = "Transient"
    /\ ProviderOf(fo.invoked[1].name).priority < ProviderOf(fo.invoked[2].name).priority
    /\ health[fo.invoked[1].name].consecutive_failures = 1
    /\ health[fo.invoked[2].name].consecutive_failures = 0

\* C10: a Permanent answer records a failure for that provider and ends the
\* call at once with a Provider error that holds the provider name and the
\* message; no candidate of lower priority is called.
C10_PermanentStops ==
    fo.status # "idle" =>
      \A i \in 1..Len(fo.invoked) :
        fo.invoked[i].kind = "Permanent"
          => LET name == fo.invoked[i].name
             IN  /\ i = Len(fo.invoked)
                 /\ fo.status = "err"
                 /\ fo.error.variant = "Provider"
                 /\ name \in Range(fo.error.parts)
                 /\ fo.invoked[i].msg \in Range(fo.error.parts)
                 /\ " permanent error: " \in Range(fo.error.parts)
                 /\ fo.recorded[i] = <<name, "failure">>
                 /\ health[name].total_failures = fo.entry[name].total_failures + 1
                 /\ health[name].consecutive_failures
                      = fo.entry[name].consecutive_failures + 1
                 /\ \A p \in EntryCandidates :
                       p.priority > ProviderOf(name).priority
                         => p.name \notin InvokedNames

\* the first candidate answered Permanent and a candidate of lower priority
\* was left uncalled
C10_Witness ==
    /\ fo.status = "err"
    /\ Len(fo.invoked) = 1
    /\ fo.invoked[1].kind = "Permanent"
    /\ \E p \in EntryCandidates :
          p.priority > ProviderOf(fo.invoked[1].name).priority

----------------------------------------------------------------------------
(* Properties of the agent turn, checked under Spec.                       *)

EventIndexes(type) == { i \in 1..Len(events) : events[i].type = type }

\* the assistant messages with tool calls the loop pushed: one per response
\* that carried tool calls
ToolCallResponses ==
    { i \in 1..Len(running_messages) :
        running_messages[i].role = "assistant"
          /\ running_messages[i].tool_calls # <<>> }

\* every tool call the model requested so far in this turn
CallsMade ==
    UNION { Range(running_messages[i].tool_calls) : i \in 1..Len(running_messages) }

\* the registry intersected with the allowlist, minus the denylist
EffectiveSet ==
    (IF allowlist.some THEN Registered \cap allowlist.names ELSE Registered)
      \ denylist

ResultsOf(id) ==
    { events[i] : i \in { j \in EventIndexes("ToolResult") : events[j].id = id } }

Returned == pc \in {"returned", "finished"}

\* C1: run calls the provider chain at most MAX_TOOL_ITERATIONS (20) times
\* in a turn; when all 20 responses carried tool calls the turn returns the
\* message "[Agent reached maximum tool iterations]" and Done carrying it
\* is sent exactly once.
C1_IterationCap ==
    /\ nreq <= 20
    /\ (Returned /\ Cardinality(ToolCallResponses) = 20)
          => /\ result.kind = "Ok"
             /\ result.msg.role = "assistant"
             /\ result.msg.content = <<"[Agent reached maximum tool iterations]">>
             /\ Cardinality(EventIndexes("Done")) = 1
             /\ \A i \in EventIndexes("Done") : events[i].content = result.msg.content

\* the turn returned after twenty provider calls that all asked for tools
C1_Witness ==
    /\ pc = "returned"
    /\ nreq = 20
    /\ Cardinality(ToolCallResponses) = 20
    /\ result.msg.content = <<"[Agent reached maximum tool iterations]">>

\* C2: a tool is executed only when its name is in the effective tool set
\* of the turn and its arguments parse as JSON; a name outside the set gets
\* the output {is_error, "Tool not allowed: <name>"}, unparsable arguments
\* get {is_error, "Invalid JSON arguments: <e>"}, both without executing.
C2_PolicyBeforeExecute ==
    \A c \in CallsMade :
      /\ c.id \in Range(executed)
            => c.name \in EffectiveSet /\ ParseJson(c.arguments).ok
      /\ c.name \notin EffectiveSet
            => /\ c.id \notin Range(executed)
               /\ \A e \in ResultsOf(c.id) :
                     e.is_error /\ e.content = <<"Tool not allowed: ", c.name>>
      /\ (c.name \in EffectiveSet /\ ~ParseJson(c.arguments).ok)
            => /\ c.id \notin Range(executed)
               /\ \A e \in ResultsOf(c.id) :
                     /\ e.is_error
                     /\ Len(e.content) = 2
                     /\ e.content[1] = "Invalid JSON arguments: "

\* one response asked for a tool outside the set with unparsable arguments
\* and then for an allowed tool, which was executed
C2_Witness ==
    /\ \E c \in CallsMade :
          /\ c.name \notin EffectiveSet
          /\ ~ParseJson(c.arguments).ok
          /\ ResultsOf(c.id) # {}
    /\ executed # <<>>

\* the tool call of the for loop fails: not allowed (or not registered),
\* unparsable arguments, or an error from execute
FailingCall(call) ==
    \/ call.name \notin EffectiveSet
    \/ ~ParseJson(call.arguments).ok
    \/ ~ToolExecute(call.name, call.arguments).ok

\* C3: a failing tool call never ends the turn: the loop sends a ToolResult
\* with is_error and the id of the call, appends it as a tool message and
\* goes on to the next tool call or, after the last one, to the top of the
\* outer loop for the next provider call.
C3_ToolFailureContinues ==
    [][ (pc = "tool" /\ pc' # "tool" /\ FailingCall(tool_calls[tc]))
          => /\ pc' = (IF tc < Len(tool_calls) THEN "tools" ELSE "loop")
             /\ result' = NoResult
             /\ Len(events') = Len(events) + 1
             /\ events'[Len(events')].type = "ToolResult"
             /\ events'[Len(events')].is_error
             /\ events'[Len(events')].id = tool_calls[tc].id
             /\ Len(running_messages') = Len(running_messages) + 1
             /\ running_messages'[Len(running_messages')]
                  = ToolMessage(tool_calls[tc].id, events'[Len(events')].content)
      ]_vars

\* the first call of a response failed, the second one was started and the
\* next provider call was made
C3_Witness ==
    \E i, j \in 1..Len(events) :
      /\ i < j
      /\ events[i].type = "ToolResult" /\ events[i].is_error /\ events[i].id = <<1, 1>>
      /\ events[j].type = "ToolCallStart" /\ events[j].id = <<1, 2>>
      /\ nreq = 2

\* C4: in a turn that sent Done, as many ToolCallStart events as ToolResult
\* events were sent before it.
C4_StartsEqualResults ==
    \A d \in EventIndexes("Done") :
      Cardinality({ i \in EventIndexes("ToolCallStart") : i < d })
        = Cardinality({ i \in EventIndexes("ToolResult") : i < d })

\* Done was sent after tool calls of which one had unparsable arguments and
\* one was not allowed
C4_Witness ==
    /\ EventIndexes("Done") # {}
    /\ Cardinality(EventIndexes("ToolCallStart")) >= 3
    /\ \E c \in CallsMade : c.name \in EffectiveSet /\ ~ParseJson(c.arguments).ok
    /\ \E c \in CallsMade : c.name \notin EffectiveSet

\* position of an event kind in the order "ContentChunk*, then the
\* ToolCallStart/ToolResult pairs, then Done or Error"
Phase(e) ==
    IF e.type = "ContentChunk" THEN 1
    ELSE IF e.type \in {"ToolCallStart", "ToolResult"} THEN 2
    ELSE 3

\* (k, j) comes before (k2, j2): tool-call order within a response, and the
\* order of the responses
IdBefore(a, b) == a[1] < b[1] \/ (a[1] = b[1] /\ a[2] < b[2])

\* each ToolCallStart is directly followed by the ToolResult with its id,
\* each ToolResult directly follows its ToolCallStart, and the pairs come
\* in tool-call order
PairsInOrder ==
    /\ \A i \in EventIndexes("ToolCallStart") :
          i < Len(events)
            => events[i + 1].type = "ToolResult" /\ events[i + 1].id = events[i].id
    /\ \A i \in EventIndexes("ToolResult") :
          i > 1 /\ events[i - 1].type = "ToolCallStart" /\ events[i - 1].id = events[i].id
    /\ \A i, j \in EventIndexes("ToolCallStart") :
          i < j => IdBefore(events[i].id, events[j].id)
    /\ \A i \in EventIndexes("ToolCallStart") :
          \E c \in CallsMade : c.id = events[i].id /\ c.name = events[i].name

\* Done at most once, Done or Error only as the last event
EndsOnce ==
    /\ Cardinality(EventIndexes("Done")) <= 1
    /\ \A i \in EventIndexes("Done") \cup EventIndexes("Error") : i = Len(events)

\* C5 as stated: all ContentChunk events come first, then the pairs in
\* tool-call order, then Done exactly once or Error; nothing after Done.
C5_OrderAsStated ==
    /\ \A i, j \in 1..Len(events) : i < j => Phase(events[i]) <= Phase(events[j])
    /\ PairsInOrder
    /\ EndsOnce

\* C5 as amended: the events come iteration by iteration. An iteration sends
\* at most one ContentChunk and then, when its response carries tool calls,
\* the ToolCallStart/ToolResult pairs in tool-call order, so a ContentChunk
\* is either the first event or directly follows the ToolResult that ended
\* the iteration before; the turn ends with Done exactly once or Error, and
\* no event follows Done.
C5_OrderPerIteration ==
    /\ \A i \in EventIndexes("ContentChunk") :
          i = 1 \/ events[i - 1].type = "ToolResult"
    /\ PairsInOrder
    /\ EndsOnce
    /\ (Returned /\ result.kind = "Ok")
          => Cardinality(EventIndexes("Done")) = 1 /\ EventIndexes("Error") = {}
    /\ (pc = "finished" /\ result.kind = "Err" /\ caller = "stream")
          => EventIndexes("Done") = {} /\ EventIndexes("Error") = {Len(events)}

\* a ContentChunk was sent after the pairs of an earlier iteration, and Done
\* ended the turn
C5_Witness ==
    /\ \E i \in EventIndexes("ContentChunk") :
          i > 1 /\ events[i - 1].type = "ToolResult" /\ i + 1 = Len(events)
    /\ events[Len(events)].type = "Done"
    /\ events[1].type = "ContentChunk"
    /\ Cardinality(EventIndexes("ToolCallStart")) >= 2

\* C6 as stated: once a send has failed because the receiver is gone, run
\* makes no further provider call and executes no further tool.
C6_DropStopsLoop ==
    [][ sendFailed => (nreq' = nreq /\ executed' = executed) ]_vars

\* the chain call of the turn ended in an error or in a response without
\* choices
ChainCallFailed ==
    \/ fo.status = "err"
    \/ fo.status = "ok" /\ fo.value.choices = <<>>

\* C7: when the provider chain returns an error or a response without
\* choices, run returns a Provider error and sends no Done; no turn both
\* sends Done and returns an error.
C7_ProviderErrorEndsTurn ==
    /\ (Returned /\ ChainCallFailed)
          => /\ result.kind = "Err"
             /\ result.err.variant = "Provider"
             /\ EventIndexes("Done") = {}
    /\ (pc = "await" /\ ChainCallFailed) => EventIndexes("Done") = {}
    /\ result.kind = "Err" => EventIndexes("Done") = {}
    /\ EventIndexes("Done") # {} => result.kind = "Ok"

\* run returned the Provider error for a response without choices
C7_Witness ==
    /\ pc = "returned"
    /\ result.kind = "Err"
    /\ fo.value.choices = <<>>
    /\ fo.status = "ok"
    /\ result.err.parts = <<"No choices in response">>

\* the turn of the happy path: the model asked for one tool call, got its
\* result and answered with text
OneToolCallThenText ==
    /\ pc = "finished"
    /\ result.kind = "Ok"
    /\ nreq = 2
    /\ Len(executed) = 1
    /\ Cardinality(CallsMade) = 1

\* C8 as stated: after such a turn the session holds, behind the user
\* message, the assistant message with the tool call, the tool result and
\* the final assistant message.
C8_SessionGainsThree ==
    OneToolCallThenText
      => /\ Len(session) = 4
         /\ session[1].role = "user"
         /\ session[2].role = "assistant" /\ session[2].tool_calls # <<>>
         /\ session[3].role = "tool"
         /\ session[4] = result.msg

----------------------------------------------------------------------------
(* Properties of the chain shared by concurrent tasks, checked under       *)
(* SpecConc.                                                               *)

\* C11: select(role) succeeds exactly when some provider matches the role
\* and is Healthy; it then returns the matching Healthy provider with the
\* lowest priority number, the earliest in the list among equals, never an
\* Exhausted one; otherwise it fails with Provider("All providers exhausted").
\* (M: the positions in the chain of the providers that match the role and
\* are Healthy when select is called.)
C11_SelectContract ==
    [][ \A t \in Tasks :
          (nreq' = nreq + 1 /\ task'[t].op = "select" /\ task'[t].at = nreq') =>
            LET r == task'[t].result
                M == { i \in 1..Len(providers) :
                         /\ RoleMatches(providers[i], task'[t].role)
                         /\ health[providers[i].name].consecutive_failures
                              < providers[i].max_retries }
            IN  /\ (r.kind = "Ok") <=> (M # {})
                /\ M # {} =>
                     \E i \in M :
                        /\ r.provider = <<providers[i]>>
                        /\ \A j \in M :
                             \/ providers[i].priority < providers[j].priority
                             \/ /\ providers[i].priority = providers[j].priority
                                /\ i <= j
                /\ M = {} =>
                     r = ChainResult("Err", <<>>,
                                     ProviderError(<<"All providers exhausted">>)) ]_vars

\* the latest call on the chain was a select that passed over an Exhausted
\* provider of a better priority and returned a Healthy one
C11_Witness ==
    \E t \in Tasks :
       /\ task[t].op = "select" /\ task[t].at = nreq
       /\ \A u \in Tasks : task[u].pc \in {"idle", "done"}
       /\ task[t].result.kind = "Ok"
       /\ \E i \in 1..Len(providers) :
             /\ RoleMatches(providers[i], task[t].role)
             /\ providers[i].priority < task[t].result.provider[1].priority
             /\ health[providers[i].name].consecutive_failures >= 1
             /\ ~IsHealthy(health, providers[i])

\* C12 as stated: right after record_success(name) consecutive_failures is
\* 0 and the provider is selectable, whatever was recorded before.
C12_SuccessResets ==
    [][ \A n \in Names(providers) :
          (applied'[n].success = applied[n].success + 1) =>
            /\ health'[n].consecutive_failures = 0
            /\ IsHealthy(health', ProviderOf(n)) ]_vars

\* C12: right after record_success(name) consecutive_failures is 0, whatever
\* was recorded before; the provider passes the health filter again when
\* its max_retries is at least 1.
C12_SuccessResetsPositive ==
    [][ \A n \in Names(providers) :
          (applied'[n].success = applied[n].success + 1) =>
            /\ health'[n].consecutive_failures = 0
            /\ ProviderOf(n).max_retries >= 1 => IsHealthy(health', ProviderOf(n)) ]_vars

\* one success was recorded for a provider after max_retries or more
\* failures in a row: the provider was Exhausted and is Healthy
C12_Witness ==
    \E n \in Names(providers) :
       /\ ProviderOf(n).max_retries >= 1
       /\ applied[n].success = 1
       /\ health[n].total_failures >= ProviderOf(n).max_retries
       /\ health[n].consecutive_failures = 0
       /\ IsHealthy(health, ProviderOf(n))

\* C13: under any interleaving of the tasks' calls, total_requests is the
\* number of record_success and record_failure calls applied to the
\* provider, total_failures the number of record_failure calls, and
\* consecutive_failures the number of record_failure calls since the last
\* record_success.
C13_CountersConsistent ==
    \A n \in Names(providers) :
       /\ health[n].total_requests = applied[n].success + applied[n].failure
       /\ health[n].total_failures = applied[n].failure
       /\ health[n].consecutive_failures = applied[n].since

\* a task holds the write lock for a provider that already has a failure
\* recorded while the other task waits to record for the same provider
C13_Witness ==
    \E t \in Tasks, u \in Tasks :
       /\ t # u
       /\ lock = t /\ task[t].pc = "writing"
       /\ task[u].pc = "want_write"
       /\ task[u].name = task[t].name
       /\ applied[task[t].name].failure >= 1

----------------------------------------------------------------------------
(* Properties of the file tools, checked under SpecFiles.                  *)

\* C14: with a workspace root configured, no file_read, file_write or
\* file_list call reads, lists, creates or writes a location outside the
\* canonical workspace root, whatever the path argument: absolute, with
\* '..' components, not existing yet, or passing through symbolic links.
C14_PathConfined ==
    \A p \in fcall.touched :
       StartsWith(p, Walk(Layout, <<>>, WorkspaceRoot, SymlinkFuel).path)

----------------------------------------------------------------------------
(* Properties of web fetch, checked under SpecWeb.                         *)

\* C15: a web_fetch call whose URL has a scheme other than http(s), a
\* blocked host name, a literal address in the private set, or a domain
\* name for which resolution fails, returns no address or returns some
\* address in the private set, returns an error and opens no connection.
C15_BadUrlRefused ==
    LET u == wf.first
        n == u.name
        bad == \/ u.scheme \notin {"http", "https"}
               \/ n \in {<<"localhost">>, <<"metadata", "google", "internal">>}
               \/ Len(n) >= 2 /\ n[Len(n)] \in {"local", "internal", "localhost"}
               \/ u.ip # <<>> /\ IsPrivateIp(u.ip[1])
               \/ /\ u.ip = <<>>
                  /\ \/ ~wf.answer.ok
                     \/ wf.answer.addrs = <<>>
                     \/ \E i \in 1..Len(wf.answer.addrs) : IsPrivateIp(wf.answer.addrs[i])
    IN  (wf.pc # "idle" /\ bad) => (wf.pc = "done" /\ ~wf.ok /\ conns = {})

\* a call for a domain whose second resolved address is private was
\* refused without a connection
C15_Witness ==
    /\ wf.pc = "done" /\ ~wf.ok /\ conns = {}
    /\ wf.first.name = <<"multi", "example">>
    /\ ~IsPrivateIp(wf.answer.addrs[1])
    /\ IsPrivateIp(wf.answer.addrs[2])

\* C16: a redirect is followed exactly when it is at most the fifth of its
\* chain and its target passes validation; a redirect that is not followed
\* ends the call with an error.
C16_FollowsUpToFive ==
    wf.last.n > 0 =>
       /\ wf.last.followed <=> (wf.last.n <= 5 /\ wf.last.valid)
       /\ ~wf.last.followed => (wf.pc = "done" /\ ~wf.ok)

\* C17: every connection of a call to a host given by name goes to an
\* address that validation resolved and checked for that name.
C17_ConnectsToValidated ==
    \A c \in conns : c.name # <<>> => c \in checked

----------------------------------------------------------------------------
(* Properties of the scheduler, checked under SpecSched.                   *)

\* C18: a tick emits exactly one task for each schedule that, when the tick
\* starts, is enabled, has a parsed cron expression and has now >= next_run,
\* and no task for any other schedule; every task carries the name, the
\* task kind and the workspace of its schedule, "default" when the
\* workspace is omitted.
C18_TickEmitsDue ==
    LET due == {i \in 1..Len(sch.schedules) :
                   /\ sch.schedules[i].enabled
                   /\ sch.parsed[i] # <<>>
                   /\ sch.schedules[i].name \in DOMAIN tick.pre
                   /\ tick.now >= tick.pre[sch.schedules[i].name].next_run}
    IN  tick.n > 0 =>
           /\ {tick.fired[k] : k \in 1..Len(tick.fired)} = due
           /\ Len(tick.tasks) = Cardinality(due)
           /\ \A k \in 1..Len(tick.tasks) :
                 LET config == sch.schedules[tick.fired[k]]
                 IN  /\ tick.tasks[k].schedule_name = config.name
                     /\ tick.tasks[k].kind =
                           (CASE config.task = "heartbeat" -> "Heartbeat"
                              [] config.task = "prompt" -> "Prompt"
                              [] config.task = "custom" -> "Custom")
                     /\ tick.tasks[k].workspace =
                           (IF config.workspace = <<>> THEN "default"
                            ELSE config.workspace[1])

\* C19: for every schedule a tick fired, after the tick last_run is the
\* tick's now, last_error is cleared, run_count is one more than before and
\* next_run is a time of the schedule's cron expression strictly after now,
\* so that the schedule is not due again at the same instant.
C19_FiredStateAdvanced ==
    \A k \in 1..Len(tick.fired) :
       LET name == sch.schedules[tick.fired[k]].name
           schedule == sch.parsed[tick.fired[k]][1]
           before == tick.pre[name]
           after == tick.post[name]
       IN  /\ after.last_run = <<tick.now>>
           /\ after.last_error = <<>>
           /\ after.run_count = before.run_count + 1
           /\ after.next_run > tick.now
           /\ schedule.live /\ after.next_run % schedule.period = 0

\* C20: a schedule whose persisted next_run lies in the past fires exactly
\* once in the first tick after load_state; a later tick fires it again only
\* when a next_run computed since then, a time after that first tick, has
\* been reached.
C20_MissedFiresOnce ==
    [][tick'.n = tick.n + 1 =>
          \A i \in tick'.missed :
             LET again == {k \in 1..Len(tick'.fired) : tick'.fired[k] = i}
                 next_run == sch.state[sch.schedules[i].name].next_run
             IN  IF tick.n = 0 THEN Cardinality(again) = 1
                 ELSE again # {} => next_run > tick.first /\ tick'.now >= next_run]_vars

----------------------------------------------------------------------------
(* Properties of the session store, checked under SpecSess.                *)

C22_FailedSaveKeepsAppend ==
    [][(/\ sm'.ret.op = "push_message"
        /\ sm'.calls = sm.calls + 1
        /\ sm.active_session_id # <<>>
        /\ sm.active_session_id[1] \in DOMAIN sm.sessions
        /\ sm.auto_save
        /\ LET before == sm.sessions[sm.active_session_id[1]]
               file == <<before.id, "json">>
               message == UserMessage(<<"message", sm'.calls>>)
           IN  \* the file does not hold the session with the message
               \/ file \notin DOMAIN sdir'
               \/ sdir'[file] # [before EXCEPT !.messages = Append(@, message),
                                               !.updated_at = clock])
       => LET before == sm.sessions[sm.active_session_id[1]]
              after == sm'.sessions[sm.active_session_id[1]]
          IN  /\ ~sm'.ret.ok
              /\ sm'.ret.value = <<"Io">>
              /\ after.messages =
                    Append(before.messages, UserMessage(<<"message", sm'.calls>>))
              /\ after.updated_at = clock]_vars

\* a push whose save failed: the message is in memory and not in the file
C22_Witness ==
    /\ sm.pc = "up"
    /\ sm.ret.op = "push_message"
    /\ ~sm.ret.ok
    /\ sm.ret.value = <<"Io">>
    /\ sm.active_session_id # <<>>
    /\ sm.active_session_id[1] \in DOMAIN sm.sessions
    /\ LET s == sm.sessions[sm.active_session_id[1]]
       IN  /\ s.messages # <<>>
           /\ s.messages[Len(s.messages)] = UserMessage(<<"message", sm.calls>>)
           /\ <<s.id, "json">> \in DOMAIN sdir
           /\ sdir[<<s.id, "json">>] # s

\* C23: recent_messages returns the last min(max_history, len) messages of
\* the active session in their stored order: all of them when
\* len <= max_history, none when there is no active session.
C23_RecentIsTail ==
    sm.ret.op = "recent_messages" =>
       LET msgs == IF /\ sm.active_session_id # <<>>
                      /\ sm.active_session_id[1] \in DOMAIN sm.sessions
                   THEN sm.sessions[sm.active_session_id[1]].messages
                   ELSE <<>>
           n == IF sm.max_history < Len(msgs) THEN sm.max_history ELSE Len(msgs)
       IN  /\ Len(sm.ret.value) = n
           /\ \A k \in 1..n : sm.ret.value[k] = msgs[Len(msgs) - n + k]

\* recent_messages cut a history longer than max_history
C23_Witness ==
    /\ sm.ret.op = "recent_messages"
    /\ sm.max_history = 2
    /\ sm.active_session_id # <<>>
    /\ sm.active_session_id[1] \in DOMAIN sm.sessions
    /\ Len(sm.sessions[sm.active_session_id[1]].messages) > 2
    /\ Len(sm.ret.value) = 2

\* C24: SessionManager::new skips corrupt session files without failing;
\* when no session was loaded it creates a session named "default", makes it
\* active and saves it; otherwise the sessions of the files are in the map
\* and the active one has the latest updated_at of them.
C24_NewActivates ==
    [][(sm.pc = "none" /\ sm'.pc # "none") =>
          LET valid == {f \in DOMAIN sdir :
                           f[2] = "json" /\ sdir[f] # [corrupt |-> TRUE]}
              loaded == DOMAIN sm'.sessions
              active == sm'.active_session_id
          IN  /\ sm'.pc = "failed" => valid = {}
              /\ sm'.pc = "up" =>
                    IF valid = {}
                    THEN \E id \in loaded :
                            /\ loaded = {id}
                            /\ sm'.sessions[id].name = "default"
                            /\ sm'.sessions[id].messages = <<>>
                            /\ active = <<id>>
                            /\ <<id, "json">> \in DOMAIN sdir'
                            /\ sdir'[<<id, "json">>] = sm'.sessions[id]
                    ELSE /\ \A id \in loaded :
                               \E f \in valid : sdir[f].id = id /\ sdir[f] = sm'.sessions[id]
                         /\ \A f \in valid : sdir[f].id \in loaded
                         /\ active # <<>>
                         /\ active[1] \in loaded
                         /\ \A id \in loaded :
                               sm'.sessions[id].updated_at
                                  <= sm'.sessions[active[1]].updated_at]_vars

\* new has loaded two sessions next to a corrupt file and a file that is
\* not .json, and the younger session is active
C24_Witness ==
    /\ sm.pc = "up"
    /\ sm.ret.op = "new"
    /\ \E f \in DOMAIN sdir : f[2] = "json" /\ sdir[f] = [corrupt |-> TRUE]
    /\ DOMAIN sm.sessions = {101, 102}
    /\ sm.active_session_id = <<102>>
    /\ sm.sessions[102].updated_at > sm.sessions[101].updated_at

\* C25: for the lists of any session, schemas returns exactly the
\* registered tools that are not in the denylist and, when there is an
\* allowlist, are in it; a name in both lists is excluded and an allowlisted
\* name that is not registered yields nothing; is_tool_allowed decides the
\* same for every tool name.
C25_SchemasFiltered ==
    \A id \in DOMAIN sm.sessions :
       LET s == sm.sessions[id]
           names == Registered \cup {"ghost"}
           admitted == (IF s.tool_allowlist.some THEN s.tool_allowlist.names ELSE names)
                          \ s.tool_denylist
           schemas == Schemas(s.tool_allowlist, s.tool_denylist)
       IN  /\ schemas = Registered \cap admitted
           /\ \A n \in names : IsToolAllowed(s, n) <=> n \in admitted
           /\ schemas = {n \in Registered : IsToolAllowed(s, n)}

\* a session whose allowlist names a denied tool and a tool that is not
\* registered
C25_Witness ==
    \E id \in DOMAIN sm.sessions :
       LET s == sm.sessions[id]
       IN  /\ s.tool_allowlist.some
           /\ s.tool_allowlist.names \cap s.tool_denylist # {}
           /\ s.tool_allowlist.names \ Registered # {}
           /\ Schemas(s.tool_allowlist, s.tool_denylist) = {}

----------------------------------------------------------------------------
(* Properties of the functions of their arguments, checked under SpecFn.   *)

\* C26: the result of web_fetch carries the truncation indicator exactly when
\* the body was cut: a body of at most 2 MiB and of at most max_length
\* characters is returned whole and without an indicator; a body over either
\* cap is returned cut to the cap and with the indicator. Does not hold.
C26_IndicatorIffTruncated ==
    (fncall.fn = "web_fetch" /\ fncall.done) =>
        LET RECURSIVE Total(_)
            Total(chunks) ==
                IF chunks = <<>> THEN 0 ELSE Head(chunks) + Total(Tail(chunks))
            bytes == Total(fncall.args.chunks)
            chars == bytes \div fncall.args.width
            fits == bytes <= MAX_BODY_BYTES /\ chars <= fncall.args.max_length
            r == fncall.ret
        IN  /\ r.kind = "ok"
            /\ fits => r.indicator = <<>> /\ r.kept_bytes = bytes
            /\ ~fits => /\ r.indicator # <<>>
                        /\ r.kept_bytes < bytes
                        /\ r.kept_bytes <= MAX_BODY_BYTES
                        /\ r.kept_chars <= fncall.args.max_length

\* C27: a recursive listing comes to an end on every tree, also one with
\* links that lead back into it; it reads no directory deeper than depth 20
\* and reads no canonical directory a second time.
C27_ListTerminates ==
    /\ [](fncall.fn = "list_recursive" =>
            /\ \A i \in 1..Len(fncall.reads) :
                  /\ fncall.reads[i].depth <= MAX_RECURSION_DEPTH
                  /\ fncall.reads[i].canon \in fncall.visited
                  /\ \A j \in 1..Len(fncall.reads) :
                        fncall.reads[i].canon = fncall.reads[j].canon => i = j
            /\ \A i \in 1..Len(fncall.stack) :
                  fncall.stack[i].depth <= MAX_RECURSION_DEPTH)
    /\ <>(fncall.fn = "list_recursive" => fncall.done /\ fncall.ret.ok)

\* a listing has ended that dropped a directory at the depth limit and
\* skipped a link back to a directory it had visited
C27_Witness ==
    /\ fncall.fn = "list_recursive" /\ fncall.done
    /\ fncall.capped # {}
    /\ Len(fncall.reads) >= MAX_RECURSION_DEPTH
    /\ \E line \in fncall.ret.value : line.note = " -> [symlink cycle, skipped]"

\* C28: in a recursive listing with a workspace root, a link whose target is
\* outside the root or cannot be canonicalised is listed with an annotation
\* and is not descended; no directory outside the root is read and no line
\* of the listing names an entry whose real location is outside the root.
C28_OutsideLinksSkipped ==
    (fncall.fn = "list_recursive" /\ fncall.args.workspace_root # <<>>) =>
        LET f == fncall.args.fs
            root == Walk(f, <<>>, fncall.args.workspace_root[1], SymlinkFuel).path
            Real(path) == Append(Walk(f, <<>>, Front(path), SymlinkFuel).path,
                                 path[Len(path)])
            dirs == 1..Len(fncall.reads)
        IN  /\ \A i \in dirs : StartsWith(fncall.reads[i].canon, root)
            /\ \A line \in fncall.result : StartsWith(Real(line.path), root)
            /\ fncall.done =>
                 \A i \in dirs :
                    \A q \in {e \in DOMAIN f : /\ Len(e) > 0
                                               /\ Front(e) = fncall.reads[i].canon
                                               /\ f[e].kind = "link"} :
                       LET t == Walk(f, <<>>, q, SymlinkFuel)
                           display == Append(fncall.reads[i].dir, q[Len(q)])
                       IN  (~t.ok \/ ~StartsWith(t.path, root)) =>
                              /\ \E line \in fncall.ret.value :
                                    /\ line.path = display
                                    /\ line.note = IF t.ok
                                         THEN " -> [symlink outside workspace, skipped]"
                                         ELSE " -> [broken symlink]"
                              /\ \A j \in dirs : fncall.reads[j].dir # display
                              /\ display \notin fncall.capped

\* a listing under a workspace root has ended that met a link out of the
\* workspace and a link without a target
C28_Witness ==
    /\ fncall.fn = "list_recursive" /\ fncall.done
    /\ fncall.args.workspace_root # <<>>
    /\ \E line \in fncall.ret.value : line.note = " -> [symlink outside workspace, skipped]"
    /\ \E line \in fncall.ret.value : line.note = " -> [broken symlink]"

\* C29 as stated: whatever the sandbox configuration, the docker command
\* line built for exec_shell and exec_python has, before the image, --rm,
\* --network=none, --read-only, a memory cap in megabytes, -w with the
\* working directory and the tmpfs mounts of /tmp and /workspace with
\* rw,noexec,nosuid,size=64m. Does not hold: without a memory limit in the
\* configuration there is no memory cap.
C29_InvariantArgsAlways ==
    (fncall.fn \in {"exec_shell", "exec_python"} /\ fncall.done
        /\ fncall.ret.program = "docker") =>
        LET a == fncall.ret.args
            image == CHOOSE i \in 1..Len(a) : a[i] = <<fncall.args.ex.docker_image>>
            options == SubSeq(a, 2, image - 1)
            Has(o) == \E i \in 1..Len(options) : options[i] = o
            HasPair(o, v) == \E i \in 1..(Len(options) - 1) :
                                options[i] = o /\ options[i + 1] = v
        IN  /\ a[1] = <<"run">>
            /\ Has(<<"--rm">>) /\ Has(<<"--network=none">>) /\ Has(<<"--read-only">>)
            /\ \E i \in 1..(Len(options) - 1) :
                  /\ options[i] = <<"--memory">>
                  /\ Len(options[i + 1]) = 2
                  /\ options[i + 1][1] \in Nat /\ options[i + 1][2] = "m"
            /\ HasPair(<<"-w">>, <<fncall.args.ex.work_dir>>)
            /\ HasPair(<<"--tmpfs">>, <<"/tmp:rw,noexec,nosuid,size=64m">>)
            /\ HasPair(<<"--tmpfs">>, <<"/workspace:rw,noexec,nosuid,size=64m">>)

\* C29, amended: the docker command line built for exec_shell and
\* exec_python has, before the image, --rm, --network=none, --read-only, -w
\* with the working directory and the two tmpfs mounts; it has --memory with
\* the configured limit in whole megabytes exactly when the configuration
\* has a memory limit.
C29_InvariantArgs ==
    (fncall.fn \in {"exec_shell", "exec_python"} /\ fncall.done
        /\ fncall.ret.program = "docker") =>
        LET a == fncall.ret.args
            ex == fncall.args.ex
            image == CHOOSE i \in 1..Len(a) : a[i] = <<ex.docker_image>>
            options == SubSeq(a, 2, image - 1)
            Has(o) == \E i \in 1..Len(options) : options[i] = o
            HasPair(o, v) == \E i \in 1..(Len(options) - 1) :
                                options[i] = o /\ options[i + 1] = v
        IN  /\ a[1] = <<"run">>
            /\ Has(<<"--rm">>) /\ Has(<<"--network=none">>) /\ Has(<<"--read-only">>)
            /\ IF ex.memory_limit = <<>> THEN ~Has(<<"--memory">>)
               ELSE HasPair(<<"--memory">>, <<ex.memory_limit[1] \div 1048576, "m">>)
            /\ HasPair(<<"-w">>, <<ex.work_dir>>)
            /\ HasPair(<<"--tmpfs">>, <<"/tmp:rw,noexec,nosuid,size=64m">>)
            /\ HasPair(<<"--tmpfs">>, <<"/workspace:rw,noexec,nosuid,size=64m">>)

\* exec_python has built a docker command line for a configuration with a
\* memory limit that is not a whole number of megabytes
C29_Witness ==
    /\ fncall.fn = "exec_python" /\ fncall.done
    /\ fncall.ret.program = "docker"
    /\ fncall.args.ex.memory_limit = <<3 * 1024 * 1024 + 17>>
    /\ fncall.ret.stdin = <<fncall.args.input>>

\* C30: with a token configured, a request to a route under the auth layer
\* reaches its handler only if one of its Authorization headers is "Bearer "
\* followed by exactly the token, and is answered 401 if none is; a request
\* whose only Authorization header is that one reaches the handler (token of
\* visible ASCII); /health is served whatever the headers; without a token
\* configured no request is answered 401.
C30_BearerOnly ==
    (fncall.fn = "request" /\ fncall.done) =>
        LET t == fncall.args.auth_token
            req == fncall.args.req
            r == fncall.ret
            exact == <<"B", "e", "a", "r", "e", "r", " ">> \o t[1]
            carried == \E i \in 1..Len(req.authorization) : req.authorization[i] = exact
        IN  /\ (t # <<>> /\ req.path \in {"/v1/chat/completions", "/v1/sessions"}) =>
                  /\ r.reached # <<>> => carried /\ r.reached = <<req.path>>
                  /\ ~carried => r.status = 401 /\ r.reached = <<>>
                  /\ req.authorization = <<exact>> => r.reached = <<req.path>>
            /\ req.path = "/health" => r.reached = <<"/health">> /\ r.status # 401
            /\ t = <<>> => r.status # 401 /\ r.reached # <<>>

\* a request to a route under the auth layer that carried the configured
\* token has reached its handler
C30_Witness ==
    /\ fncall.fn = "request" /\ fncall.done
    /\ fncall.args.auth_token = << <<"s", "k">> >>
    /\ fncall.args.req.path = "/v1/sessions"
    /\ fncall.args.req.authorization = << <<"B", "e", "a", "r", "e", "r", " ", "s", "k">> >>
    /\ fncall.ret.reached = <<"/v1/sessions">>

\* C39: after every create_session, switch_session, delete_session and
\* push_message of a manager, failed calls included, active_session_id is set
\* and names a session of the in-memory map. Does not hold.
C39_ActiveIsPresent ==
    (sm.pc = "up" /\ sm.ret.op \in {"create_session", "switch_session",
                                    "delete_session", "push_message"}) =>
        /\ sm.active_session_id # <<>>
        /\ sm.active_session_id[1] \in DOMAIN sm.sessions

----------------------------------------------------------------------------
(* Further properties of the provider chain, checked under SpecChain.      *)

----------------------------------------------------------------------------
(* Further properties of the agent loop, checked under Spec.               *)

\* C32: during a turn the request message list only grows by appending, and
\* behind the messages the turn started with it is a row of blocks, one per
\* finished iteration: the assistant message with its tool calls, then one
\* tool message per tool call, in their order, each with the id of its call.
\* The request of iteration k holds k - 1 blocks, so the request of
\* iteration k + 1 is that of iteration k followed by one block.
C32_RequestGrowsByBlocks ==
    /\ [](pc \notin {"idle", "off"} =>
            LET rm == running_messages
                start == Len(BuildOpenAIMessages(
                                RecentMessages(SubSeq(session, 1, 1), max_history)))
                RECURSIVE Blocks(_)
                \* from position i on: well formed, the number of whole blocks
                \* and the tool messages of a block still being filled
                Blocks(i) ==
                    IF i > Len(rm) THEN [ok |-> TRUE, whole |-> 0, open |-> -1]
                    ELSE IF rm[i].role # "assistant" \/ rm[i].tool_calls = <<>>
                    THEN [ok |-> FALSE, whole |-> 0, open |-> -1]
                    ELSE LET calls == rm[i].tool_calls
                             have == IF Len(rm) - i < Len(calls) THEN Len(rm) - i
                                     ELSE Len(calls)
                         IN  IF \E j \in 1..have :
                                   \/ rm[i + j].role # "tool"
                                   \/ rm[i + j].tool_call_id # calls[j].id
                             THEN [ok |-> FALSE, whole |-> 0, open |-> -1]
                             ELSE IF have < Len(calls)
                             THEN [ok |-> TRUE, whole |-> 0, open |-> have]
                             ELSE [Blocks(i + Len(calls) + 1) EXCEPT !.whole = @ + 1]
                b == Blocks(start + 1)
            IN  /\ Len(rm) >= start
                /\ \A i \in 1..start : rm[i].role \in {"system", "user"}
                /\ b.ok
                /\ pc = "loop" => b.open = -1 /\ b.whole = iteration
                /\ pc = "await" => b.open = -1 /\ b.whole = iteration - 1
                /\ pc \in {"tools", "tool"} =>
                      b.open = tc - 1 /\ b.whole = iteration - 1)
    /\ [][pc \notin {"idle", "off"} =>
            /\ Len(running_messages') >= Len(running_messages)
            /\ SubSeq(running_messages', 1, Len(running_messages)) = running_messages
            /\ iteration' \in {iteration, iteration + 1}]_vars

\* the second request of a turn is out, after a first response with two tool
\* calls
C32_Witness ==
    /\ pc = "await" /\ iteration = 2
    /\ \E i \in 1..Len(running_messages) :
          /\ Len(running_messages[i].tool_calls) = 2
          /\ Len(running_messages) = i + 2
          /\ running_messages[i + 2].tool_call_id = running_messages[i].tool_calls[2].id

----------------------------------------------------------------------------
(* Further properties of the scheduler, checked under SpecSched.           *)

\* C33: a tick leaves the state of every schedule that did not fire in it as
\* it was; a tick on a scheduler without an enabled schedule returns no task
\* and leaves the whole state as it was. Does not hold.
C33_TickFrame ==
    tick.n > 0 =>
        /\ \A i \in 1..Len(sch.schedules) :
              (/\ \A k \in 1..Len(tick.fired) : tick.fired[k] # i
               /\ sch.schedules[i].name \in DOMAIN tick.pre)
                 => tick.post[sch.schedules[i].name] = tick.pre[sch.schedules[i].name]
        /\ (\A i \in 1..Len(sch.schedules) : ~sch.schedules[i].enabled)
              => tick.tasks = <<>> /\ tick.post = tick.pre


\* C34: in run, every tick that fired a task is followed by a save of the
\* state before the sleep (after a save that succeeded the file holds the
\* state), a tick that fired none leaves the file as it was, and a save that
\* failed does not stop the scheduler. Does not hold.
C34_SavedAfterFiringTick ==
    [][tick'.n = tick.n + 1 =>
          /\ tick'.tasks # <<>> =>
                /\ tick'.save \in {"ok", "fail"}
                /\ tick'.save = "ok" => sch'.file = <<sch'.state>>
                /\ sch'.pc = "run"
          /\ tick'.tasks = <<>> => sch'.file = sch.file /\ tick'.save = "none"
          /\ tick'.save = "fail" => sch'.pc = "run" /\ sch'.file = sch.file]_vars


C36_SleepUntilEarliest ==
    (tick.n > 0 /\ ~(tick.tasks # <<>> /\ tick.save = "none")) =>
        LET live == {i \in 1..Len(sch.schedules) :
                        sch.schedules[i].enabled /\ sch.parsed[i] # <<>>}
            nexts == {tick.post[sch.schedules[i].name].next_run : i \in live}
        IN  IF nexts = {} THEN tick.sleep = 1
            ELSE LET e == CHOOSE x \in nexts : \A y \in nexts : x <= y
                 IN  IF e > tick.woke
                     THEN tick.sleep = (e - tick.woke) * HoursPerUnit
                     ELSE tick.sleep = 0

\* two enabled schedules, the second with the earlier next_run, and a
\* sleep until that one
C36_Witness ==
    /\ tick.n > 0 /\ ~(tick.tasks # <<>> /\ tick.save = "none")
    /\ Len(sch.schedules) >= 2
    /\ sch.schedules[1].enabled /\ sch.parsed[1] # <<>>
    /\ sch.schedules[2].enabled /\ sch.parsed[2] # <<>>
    /\ tick.post[sch.schedules[2].name].next_run
          < tick.post[sch.schedules[1].name].next_run
    /\ tick.sleep = (tick.post[sch.schedules[2].name].next_run - tick.woke) * HoursPerUnit
    /\ tick.sleep > 0


----------------------------------------------------------------------------
(* Chat requests: chat_completions of agent-server/src/routes.rs on the    *)
(* SessionManager that AppState shares behind a tokio RwLock.  A handler   *)
(* holds the lock for one call on the manager and releases it; between two *)
(* calls the handlers of the other requests run.  The streaming and the    *)
(* plain branch make the same calls on the manager, the first from the     *)
(* task it spawns.  The fields target and landed of a request are ghosts:  *)
(* the session that was active when its user message, and its assistant    *)
(* message, was pushed.                                                    *)

\* the chat requests the server handles
Requests == {1, 2}

IdleRequest ==
    [pc |-> "idle", target |-> <<>>, window |-> <<>>, ran |-> FALSE,
     result |-> <<>>, landed |-> <<>>, status |-> 0]

ChatInit ==
    /\ sm = [pc |-> "none", sessions |-> <<>>, active_session_id |-> <<>>,
             max_history |-> 0, auto_save |-> FALSE, uuids |-> 0, calls |-> 0,
             ret |-> [op |-> "none", ok |-> TRUE, value |-> <<>>]]
    /\ sdir = <<>>
    /\ chat = [r \in Requests |-> IdleRequest]
    /\ clock = 0
    /\ providers = LegacyChain /\ health = NewHealth(providers)
    /\ fo = IdleFrame /\ nreq = 0
    /\ AgentOff
    /\ ExtOff("chat")

\* let user_msg = req.messages.last(); sm.push_message(Message::user(..))
\* under the write lock; an error is the response 500
ChatPushUser(r, w) ==
    /\ chat[r].pc = "idle"
    /\ ManagerPush(UserMessage(<<"request", r>>), w)
    /\ chat' = [chat EXCEPT ![r] =
                   LET target == IF /\ sm.active_session_id # <<>>
                                    /\ sm.active_session_id[1] \in DOMAIN sm.sessions
                                 THEN sm.active_session_id ELSE <<>>
                   IN  IF sm'.ret.ok
                       THEN [@ EXCEPT !.pc = "pushed", !.target = target]
                       \* the message stays in the session when only the save failed
                       ELSE [@ EXCEPT !.pc = "done", !.status = 500, !.target = target]]

\* sm.recent_messages() under the read lock, cloned
ChatReadHistory(r) ==
    /\ chat[r].pc = "pushed"
    /\ chat' = [chat EXCEPT ![r] =
                   [@ EXCEPT !.pc = "read",
                             !.window =
                                 IF /\ sm.active_session_id # <<>>
                                    /\ sm.active_session_id[1] \in DOMAIN sm.sessions
                                 THEN RecentMessages(
                                         sm.sessions[sm.active_session_id[1]].messages,
                                         sm.max_history)
                                 ELSE <<>>]]
    /\ UNCHANGED <<sm, sdir, clock>>

\* agent_loop.run(&messages, None, &[], tx): the assistant message, or an
\* error (the response 500, or the Error event of the stream)
ChatRun(r, ok) ==
    /\ chat[r].pc = "read"
    /\ chat' = [chat EXCEPT ![r] =
                   IF ok
                   THEN [@ EXCEPT !.pc = "ran", !.ran = TRUE,
                                  !.result = <<AssistantMessage(<<"reply", r>>)>>]
                   ELSE [@ EXCEPT !.pc = "done", !.ran = TRUE, !.status = 500]]
    /\ UNCHANGED <<sm, sdir, clock>>

\* let _ = sm.push_message(result) under the write lock
ChatPushAssistant(r, w) ==
    /\ chat[r].pc = "ran"
    /\ ManagerPush(chat[r].result[1], w)
    /\ chat' = [chat EXCEPT ![r] =
                   [@ EXCEPT !.pc = "done", !.status = 200,
                             !.landed =
                                 IF /\ sm.active_session_id # <<>>
                                    /\ sm.active_session_id[1] \in DOMAIN sm.sessions
                                 THEN sm.active_session_id ELSE <<>>]]

ChatNext ==
    \* AppState::new: SessionManager::new(&config)
    \/ \E max_hist \in {1, 2}, auto_save \in BOOLEAN, w \in {"ok", "fail"} :
          /\ ManagerNew(max_hist, auto_save, w)
          /\ UNCHANGED <<chainVars, agentVars, concVars, fileVars, webVars, sch, tick,
                         fncall, chat>>
    \/ \E r \in Requests, w \in {"ok", "fail"} :
          /\ ChatPushUser(r, w)
          /\ UNCHANGED <<chainVars, agentVars, concVars, fileVars, webVars, sch, tick, fncall>>
    \/ \E r \in Requests :
          /\ ChatReadHistory(r)
          /\ UNCHANGED <<chainVars, agentVars, concVars, fileVars, webVars, sch, tick, fncall>>
    \/ \E r \in Requests, ok \in BOOLEAN :
          /\ ChatRun(r, ok)
          /\ UNCHANGED <<chainVars, agentVars, concVars, fileVars, webVars, sch, tick, fncall>>
    \/ \E r \in Requests, w \in {"ok", "fail"} :
          /\ ChatPushAssistant(r, w)
          /\ UNCHANGED <<chainVars, agentVars, concVars, fileVars, webVars, sch, tick, fncall>>
    \* the route POST /v1/sessions: sm.create_session(req.name) under the
    \* write lock
    \/ \E w \in {"ok", "fail"} :
          /\ CreateSession("work", w)
          /\ UNCHANGED <<chainVars, agentVars, concVars, fileVars, webVars, sch, tick,
                         fncall, chat>>

SpecChat == ChatInit /\ [][ChatNext]_vars

\* C31: the history window that a chat request hands to AgentLoop::run ends
\* with the user message of that request, whatever the other requests do.
\* Does not hold.
C31_WindowEndsWithOwnMessage ==
    \A r \in Requests :
       chat[r].ran =>
          /\ chat[r].window # <<>>
          /\ chat[r].window[Len(chat[r].window)] = UserMessage(<<"request", r>>)

\* C40: the assistant message of a chat request is appended to the session
\* that received the user message of the request, and directly after it when
\* no other request has pushed its user message to that session. Does not
\* hold.
C40_ReplyFollowsRequest ==
    \A r \in Requests :
       chat[r].status = 200 =>
          /\ chat[r].landed = chat[r].target
          /\ LET msgs == sm.sessions[chat[r].target[1]].messages
             IN  \E i \in 1..Len(msgs) :
                    /\ msgs[i] = UserMessage(<<"request", r>>)
                    /\ \E j \in (i + 1)..Len(msgs) : msgs[j] = chat[r].result[1]
                    /\ (\A q \in Requests \ {r} : chat[q].target # chat[r].target)
                          => i < Len(msgs) /\ msgs[i + 1] = chat[r].result[1]

====
